---- MODULE Spec2Model ----
(***************************************************************************)
(* Blog platform back end: the Post / Comment / Like tables and the        *)
(* request handlers of postController and commentController.  Every        *)
(* handler is a small process: one action per `await` of its code, so      *)
(* that requests interleave exactly where the event loop lets them.        *)
(***************************************************************************)
EXTENDS Integers, Sequences, FiniteSets

\* ------------------------------------------------------------- bounds
NumUsers == 2      \* registered users
NumPosts == 2      \* posts the database holds at start
MaxComments == 3   \* comments the database holds at start
MaxReq == 2        \* requests in flight together
MaxCalls == 3      \* requests of one sequential run
MaxPage == 2
MaxLimit == 2

Users == 1..NumUsers
PostIds == 1..NumPosts
CommentIds == 1..MaxComments
Texts == {"a", "b"}

\* The columns of the users table, and the `attributes` the handlers ask for
\* when they include the author of a post or a comment.
UserColumns ==
  {"id", "username", "email", "password", "firstName", "lastName", "avatar",
   "isActive", "lastLogin", "createdAt", "updatedAt"}
AuthorAttributes == {"id", "username", "avatar"}
DetailAuthorAttributes == {"id", "username", "firstName", "lastName", "avatar"}

\* new Date(): the time of the requests in flight.
Now == 1

\* The Sequelize calls one findAndCountAll makes: a COUNT and a SELECT.
FindAndCountAllQueries == 2

\* The server: the tables, the id sequences and the requests it is handling.
\* The browser: the react-query cache and the like mutations of the hook.
VARIABLES posts, comments, likes, nextPostId, nextCommentId, nextLikeId, reqs,
          cache, mutations, useComments

Reqs == DOMAIN reqs

store == <<posts, comments, likes, nextPostId, nextCommentId, nextLikeId>>
server == <<posts, comments, likes, nextPostId, nextCommentId, nextLikeId, reqs>>
client == <<cache, mutations, useComments>>
vars == <<posts, comments, likes, nextPostId, nextCommentId, nextLikeId, reqs,
          cache, mutations, useComments>>

\* ------------------------------------------------------------- rows
\* A row that is not there (findByPk / findOne answering null) has id 0.
\* Text columns whose characters matter (content, excerpt) are sequences of
\* character codes; a date column is 0 for null.
NoPost ==
  [id |-> 0, authorId |-> 0, title |-> "", content |-> <<>>, excerpt |-> <<>>,
   imageUrl |-> "", isPublished |-> FALSE, publishedAt |-> 0, viewCount |-> 0]
NoComment == [id |-> 0, postId |-> 0, authorId |-> 0, parentId |-> 0, content |-> ""]
NoLike == [id |-> 0, userId |-> 0, postId |-> 0]

PostFindByPk(id) ==
  IF \E p \in posts : p.id = id THEN CHOOSE p \in posts : p.id = id ELSE NoPost

CommentFindByPk(id) ==
  IF \E c \in comments : c.id = id THEN CHOOSE c \in comments : c.id = id ELSE NoComment

LikesOf(u, p) == {l \in likes : l.userId = u /\ l.postId = p}

\* Faulty variant: the lookup filters on postId alone.
LikeFindOneByPost(u, p) ==
  IF {l \in likes : l.postId = p} = {} THEN {NoLike} ELSE {l \in likes : l.postId = p}

\* Like.findOne({ where: { postId, userId } }): some matching row, or null.
LikeFindOne(u, p) == IF LikesOf(u, p) = {} THEN {NoLike} ELSE LikesOf(u, p)

\* ------------------------------------------------------------- requests
\* One record per request slot: the route, the handler's position (pc), its
\* inputs (user = req.user.id, 0 for an anonymous viewer; id = req.params.id;
\* the body / query fields), its local variables and the response it sent.
NoPagination ==
  [currentPage |-> 0, totalPages |-> 0, totalItems |-> 0,
   hasNextPage |-> FALSE, hasPrevPage |-> FALSE]

\* A parameter of req.query or a field of req.body: undefined when it was not
\* sent, else its string, written as the sequence of its characters.
Absent == [given |-> FALSE, str |-> <<>>]
Given(str) == [given |-> TRUE, str |-> str]
NoQuery ==
  [page |-> Absent, limit |-> Absent, sortBy |-> Absent, search |-> Absent,
   authorId |-> Absent]
NoBody ==
  [title |-> Absent, content |-> Absent, excerpt |-> Absent, imageUrl |-> Absent,
   tags |-> Absent, isPublished |-> Absent]

Idle ==
  [op |-> "none", pc |-> "idle", token |-> [kind |-> "none", id |-> 0],
   account |-> "none", user |-> 0, id |-> 0,
   text |-> "", content |-> <<>>, excerpt |-> <<>>,
   postId |-> 0, parentId |-> 0, page |-> 0, limit |-> 0,
   post |-> NoPost, comment |-> NoComment, like |-> 0,
   rows |-> <<>>, count |-> 0, idx |-> 0, cur |-> [commentCount |-> 0, likeCount |-> 0],
   queries |-> 0,
   status |-> 0, liked |-> FALSE, items |-> <<>>, pagination |-> NoPagination,
   exposed |-> {}, query |-> NoQuery, body |-> NoBody]

Free(r) == reqs[r].pc \in {"idle", "done"}
At(r, op, pc) == reqs[r].op = op /\ reqs[r].pc = pc

\* res.status(st).json(...): the handler has answered and returns.
Respond(q, st) == [q EXCEPT !.status = st, !.pc = "done"]

\* ------------------------------------------------------------- the client cache
\* JavaScript values of the cached fields isLiked and likeCount.
JsUndefined == [t |-> "undefined", v |-> 0]
JsNaN == [t |-> "NaN", v |-> 0]
JsNumber(n) == [t |-> "number", v |-> n]
JsBoolean(b) == [t |-> "boolean", v |-> IF b THEN 1 ELSE 0]
JsTruthy(x) == x.t \in {"boolean", "number"} /\ x.v # 0

\* x + n and x - n for a number n: NaN unless x is a number.
JsAdd(x, n) == IF x.t = "number" THEN JsNumber(x.v + n) ELSE JsNaN

\* getQueryData answering undefined: the entry holds no data.
NoDetail ==
  [present |-> FALSE,
   post |-> [title |-> "", isLiked |-> JsUndefined, likeCount |-> JsUndefined],
   isLiked |-> JsUndefined, likeCount |-> JsUndefined]
NoListing == [present |-> FALSE, hasPosts |-> FALSE, posts |-> <<>>]

\* What the queries store: postService.getPostById answers { post }, the
\* post inside it carrying isLiked and likeCount; postService.getPosts
\* answers { posts, pagination }, here a page that shows post 1.
FetchedDetail(liked) ==
  [NoDetail EXCEPT !.present = TRUE,
                   !.post = [title |-> "a", isLiked |-> JsBoolean(liked),
                             likeCount |-> JsNumber(IF liked THEN 1 ELSE 0)]]
FetchedListing(liked) ==
  [present |-> TRUE, hasPosts |-> TRUE,
   posts |-> <<[id |-> 1, isLiked |-> JsBoolean(liked),
                likeCount |-> JsNumber(IF liked THEN 1 ELSE 0)]>>]

\* The listing entries: the hook's own queryKey ['posts', {...}] and the
\* entry ['posts', 'drafts', user] of useDrafts.
ListingKeys == {"queryKey", "drafts"}

NoCache ==
  [detail |-> [p \in PostIds |-> [data |-> NoDetail, isInvalidated |-> FALSE]],
   listings |-> [k \in ListingKeys |-> [data |-> NoListing, isInvalidated |-> FALSE]]]
NoMutations == <<>>

\* useState<Comment[]>([]) of useComments.
NoCommentsState == <<>>

\* queryClient.setQueryData: the data is replaced and the entry counts as
\* freshly fetched.
SetQueryData(entry, data) == [entry EXCEPT !.data = data, !.isInvalidated = FALSE]

\* The updater of ['post', postId]: { ...old, isLiked: !old?.isLiked,
\* likeCount: old?.isLiked ? old.likeCount - 1 : old.likeCount + 1 }
OptimisticDetail(old) ==
  [old EXCEPT !.isLiked = JsBoolean(~JsTruthy(old.isLiked)),
              !.likeCount = IF JsTruthy(old.isLiked) THEN JsAdd(old.likeCount, -1)
                            ELSE JsAdd(old.likeCount, 1)]

\* The updater of queryKey: { ...old, posts: old?.posts?.map(...) }, an
\* object also when old is undefined.
OptimisticListing(old, postId) ==
  [present |-> TRUE, hasPosts |-> old.hasPosts,
   posts |-> [i \in 1..Len(old.posts) |->
                IF old.posts[i].id = postId
                THEN [old.posts[i] EXCEPT
                        !.isLiked = JsBoolean(~JsTruthy(old.posts[i].isLiked)),
                        !.likeCount = IF JsTruthy(old.posts[i].isLiked)
                                      THEN JsAdd(old.posts[i].likeCount, -1)
                                      ELSE JsAdd(old.posts[i].likeCount, 1)]
                ELSE old.posts[i]]]

\* ------------------------------------------------------------- Like table
\* Faulty variant: the likes table has no unique index.
LikeNoUniqueIndex(u, p) == FALSE

\* The unique index on (userId, postId) rejects a second row for the pair.
LikeUniqueViolation(u, p) == LikesOf(u, p) # {}

\* The foreign key of likes.postId rejects a row for a post that is gone.
LikeForeignKeyViolation(p) == PostFindByPk(p).id = 0

\* Faulty variant: the row found is never deleted.
LikeDestroyNothing(likeId) == likes

\* instance.destroy(): DELETE FROM likes WHERE id = ...; no row is no error.
LikeDestroy(likeId) == {l \in likes : l.id # likeId}

\* ------------------------------------------------------------- likePost
\* POST /posts/:id/like behind authenticateToken: req.user is set.
LikePostRequest(u, p) ==
  [Idle EXCEPT !.op = "likePost", !.pc = "findPost", !.user = u, !.id = p]

LikePostFindPost(r) ==
  /\ At(r, "likePost", "findPost")
  /\ LET post == PostFindByPk(reqs[r].id) IN
       reqs' = [reqs EXCEPT ![r] =
                  IF post.id = 0 THEN Respond(@, 404)
                  ELSE [@ EXCEPT !.post = post, !.pc = "findLike"]]
  /\ UNCHANGED store
  /\ UNCHANGED client

LikePostFindLike(r) ==
  /\ At(r, "likePost", "findLike")
  /\ \E l \in LikeFindOne(reqs[r].user, reqs[r].post.id) :
       reqs' = [reqs EXCEPT ![r] = [@ EXCEPT !.like = l.id, !.pc = "write"]]
  /\ UNCHANGED store
  /\ UNCHANGED client

\* The branch on existingLike: destroy it, or create the row.  A rejected
\* INSERT throws, and the handler's catch answers 500.
LikePostWrite(r) ==
  /\ At(r, "likePost", "write")
  /\ LET q == reqs[r]
         u == q.user
         p == q.post.id
     IN IF q.like # 0
        THEN /\ likes' = LikeDestroy(q.like)
             /\ reqs' = [reqs EXCEPT ![r] = [Respond(@, 200) EXCEPT !.liked = FALSE]]
             /\ UNCHANGED nextLikeId
        ELSE IF LikeUniqueViolation(u, p) \/ LikeForeignKeyViolation(p)
        THEN /\ reqs' = [reqs EXCEPT ![r] = Respond(@, 500)]
             /\ UNCHANGED <<likes, nextLikeId>>
        ELSE /\ likes' = likes \cup {[id |-> nextLikeId, userId |-> u, postId |-> p]}
             /\ nextLikeId' = nextLikeId + 1
             /\ reqs' = [reqs EXCEPT ![r] = [Respond(@, 200) EXCEPT !.liked = TRUE]]
  /\ UNCHANGED <<posts, comments, nextPostId, nextCommentId>>
  /\ UNCHANGED client

\* ------------------------------------------------------------- the database at start
\* The server starts on the database it finds (sequelize.sync, force: false).
\* Post i was written by user ((i - 1) mod NumUsers) + 1.
SeedPost(i) ==
  [id |-> i, authorId |-> ((i - 1) % NumUsers) + 1, title |-> "a",
   content |-> <<1>>, excerpt |-> <<1, 0, 0, 0>>, imageUrl |-> "",
   isPublished |-> TRUE, publishedAt |-> 1, viewCount |-> 0]

SeedPosts == {SeedPost(i) : i \in PostIds}

\* ------------------------------------------------------------- like toggles
\* MaxReq like requests, by any users on any post ids (one id matches no
\* post), are in flight together on a database without likes.
InitRace ==
  /\ posts = SeedPosts /\ comments = {} /\ likes = {}
  /\ nextPostId = NumPosts + 1 /\ nextCommentId = 1 /\ nextLikeId = 1
  /\ reqs \in [1..MaxReq -> {LikePostRequest(u, p) : u \in Users, p \in 1..(NumPosts + 1)}]
  /\ cache = NoCache /\ mutations = NoMutations
  /\ useComments = NoCommentsState

NextRace ==
  \E r \in 1..MaxReq : LikePostFindPost(r) \/ LikePostFindLike(r) \/ LikePostWrite(r)

SpecRace == InitRace /\ [][NextRace]_vars

\* MaxCalls like requests sent one after the other: a request starts when
\* the one before it has been answered.
Turn(r) == \A q \in Reqs : q < r => reqs[q].pc = "done"

InitSeqLike ==
  /\ posts = SeedPosts /\ comments = {} /\ likes = {}
  /\ nextPostId = NumPosts + 1 /\ nextCommentId = 1 /\ nextLikeId = 1
  /\ reqs \in [1..MaxCalls -> {LikePostRequest(u, p) : u \in Users, p \in 1..(NumPosts + 1)}]
  /\ cache = NoCache /\ mutations = NoMutations
  /\ useComments = NoCommentsState

NextSeqLike ==
  \E r \in 1..MaxCalls :
    \/ Turn(r) /\ LikePostFindPost(r)
    \/ Turn(r) /\ LikePostFindLike(r)
    \/ Turn(r) /\ LikePostWrite(r)

SpecSeqLike == InitSeqLike /\ [][NextSeqLike]_vars

\* ------------------------------------------------------------- owner-only mutations
\* post.authorId !== req.user.id / comment.authorId !== req.user.id
PostOwnedBy(post, u) == post.authorId = u

\* Faulty variant: the comment handlers skip the author check.
CommentOwnedByAnyone(comment, u) == TRUE

CommentOwnedBy(comment, u) == comment.authorId = u

\* instance.set(values): update() has left out the values that are undefined,
\* and tags is no attribute of the model, so save() has no column for it.
PostSet(post, values) ==
  [post EXCEPT !.title = IF values.title.given THEN values.title.str ELSE @,
               !.content = IF values.content.given THEN values.content.str ELSE @,
               !.excerpt = IF values.excerpt.given THEN values.excerpt.str ELSE @,
               !.imageUrl = IF values.imageUrl.given THEN values.imageUrl.str ELSE @]

\* The beforeUpdate hook: post.changed('isPublished') && post.isPublished.
BeforeUpdate(old, new) ==
  IF new.isPublished # old.isPublished /\ new.isPublished
  THEN [new EXCEPT !.publishedAt = Now] ELSE new

\* Faulty variant: the values that are undefined are written as well.
PostUpdateAll(id, values) ==
  {IF p.id = id
   THEN PostSet([p EXCEPT !.title = NoPost.title, !.content = NoPost.content,
                          !.excerpt = NoPost.excerpt, !.imageUrl = NoPost.imageUrl],
                values)
   ELSE p : p \in posts}

\* post.update({ title, content, excerpt, imageUrl, tags }): UPDATE posts SET
\* the columns that were set WHERE id; no row, no error.
PostUpdate(id, values) ==
  {IF p.id = id THEN BeforeUpdate(p, PostSet(p, values)) ELSE p : p \in posts}

CommentUpdate(id, content) ==
  {IF c.id = id THEN [c EXCEPT !.content = content] ELSE c : c \in comments}

\* ON DELETE CASCADE of comments.parentId: the comments of `ids` and, level by
\* level, their replies.
RECURSIVE CommentCascade(_)
CommentCascade(ids) ==
  LET more == {c.id : c \in {d \in comments : d.parentId \in ids}} IN
    IF more \subseteq ids THEN ids ELSE CommentCascade(ids \cup more)

\* ON DELETE CASCADE of comments.postId and likes.postId.
CommentsAfterPostDestroy(id) ==
  LET gone == CommentCascade({c.id : c \in {d \in comments : d.postId = id}})
  IN {c \in comments : c.id \notin gone}

\* Faulty variant: the likes of a deleted post stay.
LikesKeptAfterPostDestroy(id) == likes

LikesAfterPostDestroy(id) == {l \in likes : l.postId # id}

\* The requests of the owner handlers; their body carries the text as title
\* (updatePost) or content (updateComment).
MutationRequest(op, u, id, t) ==
  [Idle EXCEPT !.op = op, !.pc = "find", !.user = u, !.id = id, !.text = t,
               !.body.title = Given(t)]

\* PUT /posts/:id
ArriveUpdatePost(r) ==
  /\ Free(r)
  /\ \E u \in Users, id \in 1..(NumPosts + 1), t \in Texts :
       reqs' = [reqs EXCEPT ![r] = MutationRequest("updatePost", u, id, t)]
  /\ UNCHANGED store
  /\ UNCHANGED client

UpdatePostFind(r) ==
  /\ At(r, "updatePost", "find")
  /\ LET post == PostFindByPk(reqs[r].id) IN
       reqs' = [reqs EXCEPT ![r] =
                  IF post.id = 0 THEN Respond(@, 404)
                  ELSE IF ~PostOwnedBy(post, reqs[r].user) THEN Respond(@, 403)
                  ELSE [@ EXCEPT !.post = post, !.pc = "update"]]
  /\ UNCHANGED store
  /\ UNCHANGED client

UpdatePostUpdate(r) ==
  /\ At(r, "updatePost", "update")
  /\ posts' = PostUpdate(reqs[r].post.id, reqs[r].body)
  /\ reqs' = [reqs EXCEPT ![r] = [@ EXCEPT !.pc = "refetch"]]
  /\ UNCHANGED <<comments, likes, nextPostId, nextCommentId, nextLikeId>>
  /\ UNCHANGED client

UpdatePostRefetch(r) ==
  /\ At(r, "updatePost", "refetch")
  /\ reqs' = [reqs EXCEPT ![r] = [Respond(@, 200) EXCEPT !.post = PostFindByPk(reqs[r].post.id),
                                                       !.exposed = AuthorAttributes]]
  /\ UNCHANGED store
  /\ UNCHANGED client

\* DELETE /posts/:id
ArriveDeletePost(r) ==
  /\ Free(r)
  /\ \E u \in Users, id \in 1..(NumPosts + 1) :
       reqs' = [reqs EXCEPT ![r] = MutationRequest("deletePost", u, id, "")]
  /\ UNCHANGED store
  /\ UNCHANGED client

DeletePostFind(r) ==
  /\ At(r, "deletePost", "find")
  /\ LET post == PostFindByPk(reqs[r].id) IN
       reqs' = [reqs EXCEPT ![r] =
                  IF post.id = 0 THEN Respond(@, 404)
                  ELSE IF ~PostOwnedBy(post, reqs[r].user) THEN Respond(@, 403)
                  ELSE [@ EXCEPT !.post = post, !.pc = "destroy"]]
  /\ UNCHANGED store
  /\ UNCHANGED client

DeletePostDestroy(r) ==
  /\ At(r, "deletePost", "destroy")
  /\ posts' = {p \in posts : p.id # reqs[r].post.id}
  /\ comments' = CommentsAfterPostDestroy(reqs[r].post.id)
  /\ likes' = LikesAfterPostDestroy(reqs[r].post.id)
  /\ reqs' = [reqs EXCEPT ![r] = Respond(@, 200)]
  /\ UNCHANGED <<nextPostId, nextCommentId, nextLikeId>>
  /\ UNCHANGED client

\* PUT /comments/:id
ArriveUpdateComment(r) ==
  /\ Free(r)
  /\ \E u \in Users, id \in 1..(MaxComments + 1), t \in Texts :
       reqs' = [reqs EXCEPT ![r] = MutationRequest("updateComment", u, id, t)]
  /\ UNCHANGED store
  /\ UNCHANGED client

UpdateCommentFind(r) ==
  /\ At(r, "updateComment", "find")
  /\ LET comment == CommentFindByPk(reqs[r].id) IN
       reqs' = [reqs EXCEPT ![r] =
                  IF comment.id = 0 THEN Respond(@, 404)
                  ELSE IF ~CommentOwnedBy(comment, reqs[r].user) THEN Respond(@, 403)
                  ELSE [@ EXCEPT !.comment = comment, !.pc = "update"]]
  /\ UNCHANGED store
  /\ UNCHANGED client

UpdateCommentUpdate(r) ==
  /\ At(r, "updateComment", "update")
  /\ comments' = CommentUpdate(reqs[r].comment.id, reqs[r].text)
  /\ reqs' = [reqs EXCEPT ![r] = [@ EXCEPT !.pc = "refetch"]]
  /\ UNCHANGED <<posts, likes, nextPostId, nextCommentId, nextLikeId>>
  /\ UNCHANGED client

UpdateCommentRefetch(r) ==
  /\ At(r, "updateComment", "refetch")
  /\ reqs' = [reqs EXCEPT ![r] =
                [Respond(@, 200) EXCEPT !.comment = CommentFindByPk(reqs[r].comment.id),
                                        !.exposed = AuthorAttributes]]
  /\ UNCHANGED store
  /\ UNCHANGED client

\* DELETE /comments/:id
ArriveDeleteComment(r) ==
  /\ Free(r)
  /\ \E u \in Users, id \in 1..(MaxComments + 1) :
       reqs' = [reqs EXCEPT ![r] = MutationRequest("deleteComment", u, id, "")]
  /\ UNCHANGED store
  /\ UNCHANGED client

DeleteCommentFind(r) ==
  /\ At(r, "deleteComment", "find")
  /\ LET comment == CommentFindByPk(reqs[r].id) IN
       reqs' = [reqs EXCEPT ![r] =
                  IF comment.id = 0 THEN Respond(@, 404)
                  ELSE IF ~CommentOwnedBy(comment, reqs[r].user) THEN Respond(@, 403)
                  ELSE [@ EXCEPT !.comment = comment, !.pc = "destroy"]]
  /\ UNCHANGED store
  /\ UNCHANGED client

DeleteCommentDestroy(r) ==
  /\ At(r, "deleteComment", "destroy")
  /\ comments' = {c \in comments : c.id \notin CommentCascade({reqs[r].comment.id})}
  /\ reqs' = [reqs EXCEPT ![r] = Respond(@, 200)]
  /\ UNCHANGED <<posts, likes, nextPostId, nextCommentId, nextLikeId>>
  /\ UNCHANGED client

\* The database at start: comment i is on post ((i - 1) mod NumPosts) + 1 and
\* answers the comment NumPosts before it, which is on the same post; every
\* post is liked by its author.
SeedComment(i) ==
  [id |-> i, postId |-> ((i - 1) % NumPosts) + 1, authorId |-> (i % NumUsers) + 1,
   parentId |-> IF i > NumPosts THEN i - NumPosts ELSE 0, content |-> "a"]

SeedComments == {SeedComment(i) : i \in CommentIds}

SeedLikes == {[id |-> i, userId |-> SeedPost(i).authorId, postId |-> i] : i \in PostIds}

\* One client sends update and delete requests one after the other.
Solo == {1}

InitOwn ==
  /\ posts = SeedPosts /\ comments = SeedComments /\ likes = SeedLikes
  /\ nextPostId = NumPosts + 1 /\ nextCommentId = MaxComments + 1
  /\ nextLikeId = NumPosts + 1
  /\ reqs = [r \in Solo |-> Idle]
  /\ cache = NoCache /\ mutations = NoMutations
  /\ useComments = NoCommentsState

NextOwn ==
  \E r \in Solo :
    \/ ArriveUpdatePost(r) \/ UpdatePostFind(r) \/ UpdatePostUpdate(r) \/ UpdatePostRefetch(r)
    \/ ArriveDeletePost(r) \/ DeletePostFind(r) \/ DeletePostDestroy(r)
    \/ ArriveUpdateComment(r) \/ UpdateCommentFind(r) \/ UpdateCommentUpdate(r)
    \/ UpdateCommentRefetch(r)
    \/ ArriveDeleteComment(r) \/ DeleteCommentFind(r) \/ DeleteCommentDestroy(r)

SpecOwn == InitOwn /\ [][NextOwn]_vars

\* ------------------------------------------------------------- createComment
\* Faulty variant: the parent is only checked to exist.
ParentCommentRejectedIfMissing(parentComment, postId) == parentComment.id = 0

\* !parentComment || parentComment.postId !== postId
ParentCommentRejected(parentComment, postId) ==
  parentComment.id = 0 \/ parentComment.postId # postId

\* The foreign keys of comments.postId and comments.parentId.
CommentForeignKeyViolation(postId, parentId) ==
  PostFindByPk(postId).id = 0 \/ (parentId # 0 /\ CommentFindByPk(parentId).id = 0)

\* POST /comments with body { content, postId, parentId? }; parentId 0 is a
\* body without parentId.
ArriveCreateComment(r) ==
  /\ Free(r)
  /\ nextCommentId <= MaxComments
  /\ \E u \in Users, p \in 1..(NumPosts + 1), c \in 0..MaxComments :
       reqs' = [reqs EXCEPT ![r] = [Idle EXCEPT !.op = "createComment", !.pc = "findPost",
                                                !.user = u, !.postId = p, !.parentId = c,
                                                !.text = "a"]]
  /\ UNCHANGED store
  /\ UNCHANGED client

CreateCommentFindPost(r) ==
  /\ At(r, "createComment", "findPost")
  /\ LET post == PostFindByPk(reqs[r].postId) IN
       reqs' = [reqs EXCEPT ![r] =
                  IF post.id = 0 THEN Respond(@, 404)
                  ELSE IF reqs[r].parentId # 0 THEN [@ EXCEPT !.post = post, !.pc = "findParent"]
                  ELSE [@ EXCEPT !.post = post, !.pc = "create"]]
  /\ UNCHANGED store
  /\ UNCHANGED client

CreateCommentFindParent(r) ==
  /\ At(r, "createComment", "findParent")
  /\ LET parentComment == CommentFindByPk(reqs[r].parentId) IN
       reqs' = [reqs EXCEPT ![r] =
                  IF ParentCommentRejected(parentComment, reqs[r].postId)
                  THEN Respond(@, 404)
                  ELSE [@ EXCEPT !.pc = "create"]]
  /\ UNCHANGED store
  /\ UNCHANGED client

CreateCommentCreate(r) ==
  /\ At(r, "createComment", "create")
  /\ LET q == reqs[r]
         comment == [id |-> nextCommentId, postId |-> q.postId, authorId |-> q.user,
                     parentId |-> q.parentId, content |-> q.text]
     IN IF CommentForeignKeyViolation(q.postId, q.parentId)
        THEN /\ reqs' = [reqs EXCEPT ![r] = Respond(@, 500)]
             /\ UNCHANGED <<comments, nextCommentId>>
        ELSE /\ comments' = comments \cup {comment}
             /\ nextCommentId' = nextCommentId + 1
             /\ reqs' = [reqs EXCEPT ![r] = [@ EXCEPT !.comment = comment, !.pc = "refetch"]]
  /\ UNCHANGED <<posts, likes, nextPostId, nextLikeId>>
  /\ UNCHANGED client

CreateCommentRefetch(r) ==
  /\ At(r, "createComment", "refetch")
  /\ reqs' = [reqs EXCEPT ![r] =
                [Respond(@, 201) EXCEPT !.comment = CommentFindByPk(reqs[r].comment.id),
                                        !.exposed = AuthorAttributes]]
  /\ UNCHANGED store
  /\ UNCHANGED client

\* One client sends createComment requests one after the other; the database
\* holds the posts and the first comments, two comment ids are still free.
InitComment ==
  /\ posts = SeedPosts /\ likes = {}
  /\ comments = {SeedComment(i) : i \in 1..(MaxComments - 2)}
  /\ nextPostId = NumPosts + 1 /\ nextCommentId = MaxComments - 1 /\ nextLikeId = 1
  /\ reqs = [r \in Solo |-> Idle]
  /\ cache = NoCache /\ mutations = NoMutations
  /\ useComments = NoCommentsState

NextComment ==
  \E r \in Solo :
    \/ ArriveCreateComment(r) \/ CreateCommentFindPost(r) \/ CreateCommentFindParent(r)
    \/ CreateCommentCreate(r) \/ CreateCommentRefetch(r)

SpecComment == InitComment /\ [][NextComment]_vars

\* ------------------------------------------------------------- getPosts
Max(a, b) == IF a >= b THEN a ELSE b
Min(a, b) == IF a <= b THEN a ELSE b

\* Math.ceil(count / limitNumber)
Ceil(a, b) == (a + b - 1) \div b

\* where: { isPublished: true }
PublishedPosts == {p \in posts : p.isPublished}

\* order: [['createdAt', 'DESC']]: ids grow with the creation time.
RECURSIVE NewestFirst(_)
NewestFirst(ids) ==
  IF ids = {} THEN <<>>
  ELSE LET m == CHOOSE i \in ids : \A j \in ids : j <= i
       IN <<m>> \o NewestFirst(ids \ {m})

\* limit / offset on the posts (the includes are joined after the window).
PageWindow(seq, offset, limit) ==
  IF offset >= Len(seq) THEN <<>>
  ELSE SubSeq(seq, offset + 1, Min(offset + limit, Len(seq)))

\* Faulty variant: only the top-level comments are counted.
CommentCountTopLevel(p) == Cardinality({c \in comments : c.postId = p /\ c.parentId = 0})

\* Comment.count({ where: { postId } }) and Like.count({ where: { postId } })
CommentCount(p) == Cardinality({c \in comments : c.postId = p})
LikeCount(p) == Cardinality({l \in likes : l.postId = p})

\* The COUNT of findAndCountAll runs over the posts LEFT JOINed with their
\* author, comments and likes and, without `distinct`, counts the joined
\* rows: a post counts once per (comment, like) combination.
JoinedRows(p) == Max(1, CommentCount(p)) * Max(1, LikeCount(p))

RECURSIVE JoinedRowsOf(_)
JoinedRowsOf(ids) ==
  IF ids = {} THEN 0
  ELSE LET i == CHOOSE j \in ids : TRUE
       IN JoinedRows(i) + JoinedRowsOf(ids \ {i})

FindAndCountAllCount == JoinedRowsOf({p.id : p \in PublishedPosts})

FindAndCountAllRows(page, limit) ==
  IF FindAndCountAllCount = 0 THEN <<>>
  ELSE PageWindow(NewestFirst({p.id : p \in PublishedPosts}), (page - 1) * limit, limit)

Pagination(page, limit, count) ==
  [currentPage |-> page, totalPages |-> Ceil(count, limit), totalItems |-> count,
   hasNextPage |-> page < Ceil(count, limit), hasPrevPage |-> page > 1]

\* GET /posts?page=&limit= behind optionalAuth: user 0 is an anonymous viewer.
GetPostsRequest(u, page, limit) ==
  [Idle EXCEPT !.op = "getPosts", !.pc = "list", !.user = u, !.page = page, !.limit = limit]

\* The response, sent when the last post's async function has returned.
GetPostsRespond(q, items) ==
  [Respond(q, 200) EXCEPT !.items = items,
                          !.pagination = Pagination(q.page, q.limit, q.count),
                          !.exposed = IF items = <<>> THEN {} ELSE AuthorAttributes]

\* One post's { ...post.toJSON(), commentCount, likeCount, isLiked } is ready:
\* go on with the next post of the page or answer.  Promise.all starts the
\* per-post functions together; each of them issues its own queries, which
\* only read, so the posts are taken in page order.
GetPostsItemDone(q, isLiked) ==
  LET items == Append(q.items, [id |-> q.rows[q.idx], commentCount |-> q.cur.commentCount,
                                likeCount |-> q.cur.likeCount, isLiked |-> isLiked])
  IN IF q.idx = Len(q.rows) THEN GetPostsRespond(q, items)
     ELSE [q EXCEPT !.items = items, !.idx = q.idx + 1, !.pc = "commentCount"]

GetPostsFindAndCountAll(r) ==
  /\ At(r, "getPosts", "list")
  /\ LET q == [reqs[r] EXCEPT !.rows = FindAndCountAllRows(reqs[r].page, reqs[r].limit),
                              !.count = FindAndCountAllCount,
                              !.queries = @ + FindAndCountAllQueries]
     IN reqs' = [reqs EXCEPT ![r] =
                   IF q.rows = <<>> THEN GetPostsRespond(q, <<>>)
                   ELSE [q EXCEPT !.idx = 1, !.pc = "commentCount"]]
  /\ UNCHANGED store
  /\ UNCHANGED client

GetPostsCommentCount(r) ==
  /\ At(r, "getPosts", "commentCount")
  /\ reqs' = [reqs EXCEPT ![r] =
                [@ EXCEPT !.cur.commentCount = CommentCount(reqs[r].rows[reqs[r].idx]),
                          !.queries = @ + 1, !.pc = "likeCount"]]
  /\ UNCHANGED store
  /\ UNCHANGED client

\* For an anonymous viewer isLiked is false without a query.
GetPostsLikeCount(r) ==
  /\ At(r, "getPosts", "likeCount")
  /\ LET q == [reqs[r] EXCEPT !.cur.likeCount = LikeCount(reqs[r].rows[reqs[r].idx]),
                              !.queries = @ + 1]
     IN reqs' = [reqs EXCEPT ![r] =
                   IF q.user = 0 THEN GetPostsItemDone(q, FALSE)
                   ELSE [q EXCEPT !.pc = "isLiked"]]
  /\ UNCHANGED store
  /\ UNCHANGED client

GetPostsIsLiked(r) ==
  /\ At(r, "getPosts", "isLiked")
  /\ \E l \in LikeFindOne(reqs[r].user, reqs[r].rows[reqs[r].idx]) :
       reqs' = [reqs EXCEPT ![r] =
                  GetPostsItemDone([reqs[r] EXCEPT !.queries = @ + 1], l.id # 0)]
  /\ UNCHANGED store
  /\ UNCHANGED client

\* The database at start of a listing: any of the posts may be unpublished,
\* the first n comments exist, and post p is liked by its first liked[p] users.
ListedPosts(hidden) == {[SeedPost(i) EXCEPT !.isPublished = (i \notin hidden)] : i \in PostIds}

InitList ==
  /\ \E hidden \in SUBSET PostIds : posts = ListedPosts(hidden)
  /\ \E n \in 0..MaxComments : comments = {SeedComment(i) : i \in 1..n}
  /\ \E liked \in [PostIds -> 0..NumUsers] :
       likes = {l \in {[id |-> (p - 1) * NumUsers + u, userId |-> u, postId |-> p] :
                         u \in Users, p \in PostIds} : l.userId <= liked[l.postId]}
  /\ nextPostId = NumPosts + 1 /\ nextCommentId = MaxComments + 1
  /\ nextLikeId = NumPosts * NumUsers + 1
  /\ reqs \in [Solo -> {GetPostsRequest(u, page, limit) :
                          u \in 0..NumUsers, page \in 1..MaxPage, limit \in 1..MaxLimit}]
  /\ cache = NoCache /\ mutations = NoMutations
  /\ useComments = NoCommentsState

NextList ==
  \E r \in Solo :
    \/ GetPostsFindAndCountAll(r) \/ GetPostsCommentCount(r)
    \/ GetPostsLikeCount(r) \/ GetPostsIsLiked(r)

SpecList == InitList /\ [][NextList]_vars

\* ------------------------------------------------------------- getPosts: the query string
\* parseInt(str): an optional sign and the longest run of decimal digits that
\* follows; NaN when there is no digit.
DigitValue == [c \in {"0", "1", "2"} |-> IF c = "0" THEN 0 ELSE IF c = "1" THEN 1 ELSE 2]

RECURSIVE LeadingDigits(_)
LeadingDigits(str) ==
  IF str = <<>> \/ Head(str) \notin DOMAIN DigitValue THEN <<>>
  ELSE <<Head(str)>> \o LeadingDigits(Tail(str))

RECURSIVE DecimalValue(_)
DecimalValue(digits) ==
  IF digits = <<>> THEN 0
  ELSE 10 * DecimalValue(SubSeq(digits, 1, Len(digits) - 1))
       + DigitValue[digits[Len(digits)]]

ParseInt(str) ==
  LET negative == str # <<>> /\ Head(str) = "-"
      digits == LeadingDigits(IF negative THEN Tail(str) ELSE str)
  IN IF digits = <<>> THEN JsNaN
     ELSE JsNumber(IF negative THEN 0 - DecimalValue(digits) ELSE DecimalValue(digits))

\* x * y on JavaScript numbers.
JsMul(x, y) == IF x.t = "number" /\ y.t = "number" THEN JsNumber(x.v * y.v) ELSE JsNaN

\* The destructuring defaults of req.query.
DefaultPage == <<"1">>
DefaultLimit == <<"1", "0">>
DefaultSortBy == "createdAt"
OrDefault(param, default) == IF param.given THEN param.str ELSE default

\* if (search), if (authorId): a string is truthy unless it is empty.
Truthy(param) == param.given /\ param.str # <<>>

\* The columns of the posts table.
PostColumns ==
  {"id", "title", "content", "excerpt", "imageUrl", "isPublished", "publishedAt",
   "viewCount", "authorId", "createdAt", "updatedAt"}

\* ILIKE: both sides compared in lower case; in the pattern % stands for any
\* run of characters and _ for any one character.
ToLower == [c \in {"F", "O", "X"} |-> IF c = "F" THEN "f" ELSE IF c = "O" THEN "o" ELSE "x"]
Lower(str) == [i \in 1..Len(str) |-> IF str[i] \in DOMAIN ToLower THEN ToLower[str[i]]
                                     ELSE str[i]]

RECURSIVE Like(_, _)
Like(str, pattern) ==
  IF pattern = <<>> THEN str = <<>>
  ELSE IF Head(pattern) = "%"
       THEN Like(str, Tail(pattern)) \/ (str # <<>> /\ Like(Tail(str), pattern))
  ELSE IF str = <<>> THEN FALSE
  ELSE (Head(pattern) = "_" \/ Head(pattern) = Head(str)) /\ Like(Tail(str), Tail(pattern))

ILike(str, pattern) == Like(Lower(str), Lower(pattern))

\* whereClause: isPublished, [Op.or] of the two iLike on `%${search}%` when a
\* search is given, authorId when an authorId is given.
WhereClause(query, post) ==
  /\ post.isPublished
  /\ Truthy(query.search)
     => LET pattern == <<"%">> \o query.search.str \o <<"%">> IN
          ILike(post.title, pattern) \/ ILike(post.content, pattern)
  /\ Truthy(query.authorId)
     => JsNumber(post.authorId) = ParseInt(query.authorId.str)

\* What PostgreSQL refuses to run: LIMIT or OFFSET that is NaN or negative,
\* an integer column compared with NaN, ORDER BY a column the table lacks.
QueryRejected(query, limitNumber, offset) ==
  \/ limitNumber.t # "number" \/ offset.t # "number"
  \/ limitNumber.v < 0 \/ offset.v < 0
  \/ OrDefault(query.sortBy, DefaultSortBy) \notin PostColumns
  \/ Truthy(query.authorId) /\ ParseInt(query.authorId.str).t # "number"

\* JSON.stringify of Infinity and of NaN: null.
JsonNull == -1

\* The pagination of a page of limit 0: Math.ceil(count / 0) is Infinity, or
\* NaN when count is 0.
PaginationOverZero(page, count) ==
  [currentPage |-> page, totalPages |-> JsonNull, totalItems |-> count,
   hasNextPage |-> count > 0, hasPrevPage |-> page > 1]

\* GET /posts?page=&limit=&sortBy=&search=&authorId= behind optionalAuth.
GetPostsQueryRequest(u, query) ==
  [Idle EXCEPT !.op = "getPosts", !.pc = "query", !.user = u, !.query = query]

\* From the destructuring of req.query to the answer of findAndCountAll; a
\* rejected query lands in the catch.
GetPostsQuery(r) ==
  /\ At(r, "getPosts", "query")
  /\ LET query == reqs[r].query
         pageNumber == ParseInt(OrDefault(query.page, DefaultPage))
         limitNumber == ParseInt(OrDefault(query.limit, DefaultLimit))
         offset == JsMul(JsAdd(pageNumber, -1), limitNumber)
         found == {p.id : p \in {p \in posts : WhereClause(query, p)}}
         issued == [reqs[r] EXCEPT !.queries = @ + FindAndCountAllQueries]
     IN reqs' = [reqs EXCEPT ![r] =
          IF QueryRejected(query, limitNumber, offset) THEN Respond(issued, 500)
          ELSE LET q == [issued EXCEPT
                           !.page = pageNumber.v, !.limit = limitNumber.v,
                           !.count = JoinedRowsOf(found),
                           !.rows = PageWindow(NewestFirst(found), offset.v, limitNumber.v)]
               IN IF limitNumber.v = 0
                  THEN [Respond(q, 200) EXCEPT
                          !.pagination = PaginationOverZero(q.page, q.count)]
                  ELSE IF q.rows = <<>> THEN GetPostsRespond(q, <<>>)
                  ELSE [q EXCEPT !.idx = 1, !.pc = "commentCount"]]
  /\ UNCHANGED store
  /\ UNCHANGED client

\* The query strings that are sent: paging parameters of every kind, a sort
\* column, or a search with or without an author.
PageParams == {Absent, Given(<<"1">>), Given(<<"2">>), Given(<<"0">>), Given(<<"-", "1">>),
               Given(<<"x">>)}
SortParams == {Absent, Given("id"), Given("likes")}
SearchParams == {Absent, Given(<<"f", "o">>), Given(<<"X">>), Given(<<"_">>), Given(<<"z">>)}
AuthorParams == {Absent} \cup {Given(<<c>>) : c \in {"1", "2"}}
Queries ==
  {[NoQuery EXCEPT !.page = page, !.limit = limit] : page \in PageParams, limit \in PageParams}
  \cup {[NoQuery EXCEPT !.sortBy = sortBy] : sortBy \in SortParams}
  \cup {[NoQuery EXCEPT !.search = search, !.authorId = authorId] :
          search \in SearchParams, authorId \in AuthorParams}

\* The posts at the start: any of them may be unpublished, each is titled
\* "Foo" or "bar" and reads "xy".
Titles == {<<"F", "o", "o">>, <<"b", "a", "r">>}
QueriedPosts(hidden, title) ==
  {[SeedPost(i) EXCEPT !.isPublished = (i \notin hidden), !.title = title[i],
                       !.content = <<"x", "y">>, !.excerpt = <<"x", "y">>] : i \in PostIds}

InitQuery ==
  /\ \E hidden \in SUBSET PostIds, title \in [PostIds -> Titles] :
       posts = QueriedPosts(hidden, title)
  /\ comments = SeedComments /\ likes = SeedLikes
  /\ nextPostId = NumPosts + 1 /\ nextCommentId = MaxComments + 1
  /\ nextLikeId = NumPosts + 1
  /\ reqs \in [Solo -> {GetPostsQueryRequest(u, query) : u \in {0, 1}, query \in Queries}]
  /\ cache = NoCache /\ mutations = NoMutations
  /\ useComments = NoCommentsState

NextQuery ==
  \E r \in Solo :
    \/ GetPostsQuery(r) \/ GetPostsCommentCount(r)
    \/ GetPostsLikeCount(r) \/ GetPostsIsLiked(r)

SpecQuery == InitQuery /\ [][NextQuery]_vars

\* ------------------------------------------------------------- getPostById
\* GET /posts/:id behind optionalAuth: user 0 is an anonymous viewer.
GetPostByIdRequest(u, id) ==
  [Idle EXCEPT !.op = "getPostById", !.pc = "find", !.user = u, !.id = id]

\* post.getCommentsWithAuthors(): all comments of the post, oldest first.
RECURSIVE OldestFirst(_)
OldestFirst(ids) ==
  IF ids = {} THEN <<>>
  ELSE LET m == CHOOSE i \in ids : \A j \in ids : i <= j
       IN <<m>> \o OldestFirst(ids \ {m})

GetCommentsWithAuthors(p) == OldestFirst({c.id : c \in {d \in comments : d.postId = p}})

\* The include of getCommentsWithAuthors names no `attributes`: the author of
\* every comment is loaded with all its columns.
CommentAuthorAttributes == UserColumns

\* res.json serialises the comment instances with their toJSON, which takes
\* the included author by get({ plain: true }): every loaded column is
\* written out, User.toJSON is not called for it.
SerializeIncluded(values) == values

\* post.save(): UPDATE posts SET viewCount = <the instance's value> WHERE id.
PostSave(post) ==
  {IF p.id = post.id THEN [p EXCEPT !.viewCount = post.viewCount] ELSE p : p \in posts}

\* Faulty variant: only a missing post is not found.
PostNotFoundIfMissing(post) == post.id = 0

\* if (!post || !post.isPublished)
PostNotFound(post) == post.id = 0 \/ ~post.isPublished

\* findByPk, the 404 for a missing or unpublished post, and the increment of
\* the loaded instance (post.viewCount += 1) up to the await of the save.
GetPostByIdFind(r) ==
  /\ At(r, "getPostById", "find")
  /\ LET post == PostFindByPk(reqs[r].id)
     IN reqs' = [reqs EXCEPT ![r] =
                   IF PostNotFound(post) THEN Respond(@, 404)
                   ELSE [@ EXCEPT !.post = [post EXCEPT !.viewCount = @ + 1],
                                  !.exposed = DetailAuthorAttributes,
                                  !.pc = "save"]]
  /\ UNCHANGED store
  /\ UNCHANGED client

GetPostByIdSave(r) ==
  /\ At(r, "getPostById", "save")
  /\ posts' = PostSave(reqs[r].post)
  /\ reqs' = [reqs EXCEPT ![r].pc = "comments"]
  /\ UNCHANGED <<comments, likes, nextPostId, nextCommentId, nextLikeId>>
  /\ UNCHANGED client

GetPostByIdComments(r) ==
  /\ At(r, "getPostById", "comments")
  /\ reqs' = [reqs EXCEPT ![r] =
                [@ EXCEPT !.rows = GetCommentsWithAuthors(reqs[r].post.id),
                          !.exposed =
                            IF GetCommentsWithAuthors(reqs[r].post.id) = <<>> THEN @
                            ELSE @ \cup SerializeIncluded(CommentAuthorAttributes),
                          !.pc = "likeCount"]]
  /\ UNCHANGED store
  /\ UNCHANGED client

GetPostByIdLikeCount(r) ==
  /\ At(r, "getPostById", "likeCount")
  /\ LET q == [reqs[r] EXCEPT !.cur.likeCount = LikeCount(reqs[r].post.id)]
     IN reqs' = [reqs EXCEPT ![r] =
                   IF q.user = 0 THEN [Respond(q, 200) EXCEPT !.liked = FALSE]
                   ELSE [q EXCEPT !.pc = "isLiked"]]
  /\ UNCHANGED store
  /\ UNCHANGED client

GetPostByIdIsLiked(r) ==
  /\ At(r, "getPostById", "isLiked")
  /\ \E l \in LikeFindOne(reqs[r].user, reqs[r].post.id) :
       reqs' = [reqs EXCEPT ![r] = [Respond(@, 200) EXCEPT !.liked = (l.id # 0)]]
  /\ UNCHANGED store
  /\ UNCHANGED client

\* Detail reads come from an anonymous viewer or from user 1.
DetailViewers == {0, 1}

\* Requests in flight together over the seeded database, whose last post may
\* be a draft.
InitView ==
  /\ \E hidden \in {{}, {NumPosts}} : posts = ListedPosts(hidden)
  /\ comments = SeedComments /\ likes = SeedLikes
  /\ nextPostId = NumPosts + 1 /\ nextCommentId = MaxComments + 1
  /\ nextLikeId = NumPosts + 1
  /\ reqs \in [1..MaxReq -> {GetPostByIdRequest(u, id) :
                               u \in DetailViewers, id \in 1..(NumPosts + 1)}]
  /\ cache = NoCache /\ mutations = NoMutations
  /\ useComments = NoCommentsState

NextView ==
  \E r \in 1..MaxReq :
    \/ GetPostByIdFind(r) \/ GetPostByIdSave(r) \/ GetPostByIdComments(r)
    \/ GetPostByIdLikeCount(r) \/ GetPostByIdIsLiked(r)

SpecView == InitView /\ [][NextView]_vars

\* ------------------------------------------------------------- reads beside like toggles
\* Requests of user 1 in flight together on a database without likes: like
\* toggles, detail reads and listings of the first page.
InitReadLike ==
  /\ posts = SeedPosts /\ comments = {} /\ likes = {}
  /\ nextPostId = NumPosts + 1 /\ nextCommentId = 1 /\ nextLikeId = 1
  /\ reqs \in [1..MaxReq -> {LikePostRequest(1, p) : p \in PostIds}
                             \cup {GetPostByIdRequest(1, p) : p \in PostIds}
                             \cup {GetPostsRequest(1, 1, MaxLimit)}]
  /\ cache = NoCache /\ mutations = NoMutations
  /\ useComments = NoCommentsState

NextReadLike ==
  \E r \in 1..MaxReq :
    \/ LikePostFindPost(r) \/ LikePostFindLike(r) \/ LikePostWrite(r)
    \/ GetPostByIdFind(r) \/ GetPostByIdSave(r) \/ GetPostByIdComments(r)
    \/ GetPostByIdLikeCount(r) \/ GetPostByIdIsLiked(r)
    \/ GetPostsFindAndCountAll(r) \/ GetPostsCommentCount(r)
    \/ GetPostsLikeCount(r) \/ GetPostsIsLiked(r)

SpecReadLike == InitReadLike /\ [][NextReadLike]_vars

\* ------------------------------------------------------------- getComments
\* GET /comments/post/:postId?page=&limit= behind optionalAuth.
GetCommentsRequest(p, page, limit) ==
  [Idle EXCEPT !.op = "getComments", !.pc = "findPost", !.id = p,
               !.page = page, !.limit = limit]

\* where: { postId, parentId: null }
TopLevelComments(p) == {c \in comments : c.postId = p /\ c.parentId = 0}

\* The include `replies`: the comments whose parentId is the comment.
RepliesOf(c) == {d \in comments : d.parentId = c}

\* The sequences that list every element of a set once.
RECURSIVE Orderings(_)
Orderings(ids) ==
  IF ids = {} THEN {<<>>}
  ELSE UNION {{<<i>> \o t : t \in Orderings(ids \ {i})} : i \in ids}

\* The `order` option of the include `replies` is given without
\* `separate: true`, so it does not reach the query: the replies of a comment
\* come back in whatever order the database joins them.
RepliesLoaded(c) == Orderings({d.id : d \in RepliesOf(c)})

\* The COUNT of findAndCountAll runs over the top-level comments LEFT JOINed
\* with their author and replies and, without `distinct`, counts the joined
\* rows: a comment counts once per reply.
CommentJoinedRows(c) == Max(1, Cardinality(RepliesOf(c)))

RECURSIVE CommentJoinedRowsOf(_)
CommentJoinedRowsOf(ids) ==
  IF ids = {} THEN 0
  ELSE LET i == CHOOSE j \in ids : TRUE
       IN CommentJoinedRows(i) + CommentJoinedRowsOf(ids \ {i})

CommentsFindAndCountAllCount(p) == CommentJoinedRowsOf({c.id : c \in TopLevelComments(p)})

\* order: [['createdAt', 'DESC']], limit, offset on the top-level comments.
CommentsFindAndCountAllRows(p, page, limit) ==
  IF CommentsFindAndCountAllCount(p) = 0 THEN <<>>
  ELSE PageWindow(NewestFirst({c.id : c \in TopLevelComments(p)}), (page - 1) * limit, limit)

GetCommentsFindPost(r) ==
  /\ At(r, "getComments", "findPost")
  /\ reqs' = [reqs EXCEPT ![r] =
                IF PostFindByPk(reqs[r].id).id = 0 THEN Respond(@, 404)
                ELSE [@ EXCEPT !.pc = "list"]]
  /\ UNCHANGED store
  /\ UNCHANGED client

GetCommentsFindAndCountAll(r) ==
  /\ At(r, "getComments", "list")
  /\ LET q == reqs[r]
         rows == CommentsFindAndCountAllRows(q.id, q.page, q.limit)
         count == CommentsFindAndCountAllCount(q.id)
     IN \E replies \in [1..Len(rows) -> UNION {RepliesLoaded(c) : c \in CommentIds}] :
          /\ \A k \in 1..Len(rows) : replies[k] \in RepliesLoaded(rows[k])
          /\ reqs' = [reqs EXCEPT ![r] =
                        [Respond(q, 200) EXCEPT
                           !.rows = rows, !.count = count,
                           !.queries = @ + FindAndCountAllQueries,
                           !.items = [k \in 1..Len(rows) |->
                                        [id |-> rows[k], replies |-> replies[k]]],
                           !.pagination = Pagination(q.page, q.limit, count),
                           !.exposed = IF rows = <<>> THEN {} ELSE AuthorAttributes]]
  /\ UNCHANGED store
  /\ UNCHANGED client

\* The comment threads the database may hold: every comment is on some post,
\* and is top-level or a reply to an older comment of the same post.
CommentThreads ==
  {{[id |-> i, postId |-> postOf[i], authorId |-> (i % NumUsers) + 1,
     parentId |-> parentOf[i], content |-> "a"] : i \in CommentIds} :
     <<postOf, parentOf>> \in
       {pp \in [CommentIds -> PostIds] \X [CommentIds -> 0..MaxComments] :
          \A i \in CommentIds :
            pp[2][i] = 0 \/ (pp[2][i] < i /\ pp[1][pp[2][i]] = pp[1][i])}}

InitReadComments ==
  /\ posts = SeedPosts /\ comments \in CommentThreads /\ likes = SeedLikes
  /\ nextPostId = NumPosts + 1 /\ nextCommentId = MaxComments + 1
  /\ nextLikeId = NumPosts + 1
  /\ reqs \in [Solo -> {GetCommentsRequest(p, page, limit) :
                          p \in 1..(NumPosts + 1), page \in 1..MaxPage,
                          limit \in 1..MaxLimit}]
  /\ cache = NoCache /\ mutations = NoMutations
  /\ useComments = NoCommentsState

NextReadComments ==
  \E r \in Solo : GetCommentsFindPost(r) \/ GetCommentsFindAndCountAll(r)

SpecReadComments == InitReadComments /\ [][NextReadComments]_vars

\* ------------------------------------------------------------- createPost
\* post.content.substring(0, 200)
ExcerptLength == 200

\* '...' (character code 0 is the full stop; content uses the codes 1..9)
TruncationMarker == <<0, 0, 0>>

\* String.prototype.substring(0, n): the first n characters, all of them when
\* the string is shorter.
Substring(str, n) == SubSeq(str, 1, Min(n, Len(str)))

\* Faulty variant: the hook overwrites an excerpt that was given.
BeforeCreateAlways(post) ==
  [post EXCEPT !.excerpt = Substring(post.content, ExcerptLength) \o TruncationMarker]

\* The beforeCreate hook of Post: if (!post.excerpt && post.content).
BeforeCreate(post) ==
  IF post.excerpt = <<>> /\ post.content # <<>>
  THEN [post EXCEPT !.excerpt = Substring(post.content, ExcerptLength) \o TruncationMarker]
  ELSE post

\* The bodies createPostSchema lets through: content of 1..50000 characters,
\* excerpt absent (<<>>) or a non-empty string.
ContentOfLength(n) == [i \in 1..n |-> ((i - 1) % 9) + 1]
ContentLengths == {1, ExcerptLength, ExcerptLength + 1, ExcerptLength + 100}
Excerpts == {<<>>, <<9>>}


\* POST /posts behind authenticateToken and validateRequest(createPostSchema).
\* The run creates at most MaxReq posts.
ArriveCreatePost(r) ==
  /\ Free(r)
  /\ nextPostId <= NumPosts + MaxReq
  /\ \E u \in Users, n \in ContentLengths, e \in Excerpts :
       reqs' = [reqs EXCEPT ![r] =
                  [Idle EXCEPT !.op = "createPost", !.pc = "create", !.user = u,
                               !.text = "a", !.content = ContentOfLength(n),
                               !.excerpt = e]]
  /\ UNCHANGED store
  /\ UNCHANGED client

\* Post.create: the column defaults (viewCount 0), the values of the handler
\* (isPublished true, publishedAt now), the beforeCreate hook, the INSERT.
CreatePostCreate(r) ==
  /\ At(r, "createPost", "create")
  /\ LET q == reqs[r]
         post == BeforeCreate([id |-> nextPostId, authorId |-> q.user, title |-> q.text,
                               content |-> q.content, excerpt |-> q.excerpt,
                               imageUrl |-> "",
                               isPublished |-> TRUE, publishedAt |-> Now,
                               viewCount |-> 0])
     IN /\ posts' = posts \cup {post}
        /\ nextPostId' = nextPostId + 1
        /\ reqs' = [reqs EXCEPT ![r] = [@ EXCEPT !.post = post, !.pc = "refetch"]]
  /\ UNCHANGED <<comments, likes, nextCommentId, nextLikeId>>
  /\ UNCHANGED client

CreatePostRefetch(r) ==
  /\ At(r, "createPost", "refetch")
  /\ reqs' = [reqs EXCEPT ![r] =
                [Respond(@, 201) EXCEPT !.post = PostFindByPk(reqs[r].post.id),
                                        !.exposed = AuthorAttributes]]
  /\ UNCHANGED store
  /\ UNCHANGED client

InitCreatePost ==
  /\ posts = SeedPosts /\ comments = SeedComments /\ likes = SeedLikes
  /\ nextPostId = NumPosts + 1 /\ nextCommentId = MaxComments + 1
  /\ nextLikeId = NumPosts + 1
  /\ reqs = [r \in Solo |-> Idle]
  /\ cache = NoCache /\ mutations = NoMutations
  /\ useComments = NoCommentsState

NextCreatePost ==
  \E r \in Solo : ArriveCreatePost(r) \/ CreatePostCreate(r) \/ CreatePostRefetch(r)

SpecCreatePost == InitCreatePost /\ [][NextCreatePost]_vars

\* ------------------------------------------------------------- updatePost: the request body
\* updatePostSchema: a Joi.object refuses a key it does not name, and a
\* Joi.string refuses the empty string.
UpdatePostSchemaKeys == {"title", "content", "excerpt", "imageUrl", "tags"}
UpdatePostValidationError(body) ==
  \/ \E key \in DOMAIN body \ UpdatePostSchemaKeys : body[key].given
  \/ body.title.given /\ body.title.str = ""
  \/ body.content.given /\ body.content.str = <<>>
  \/ body.excerpt.given /\ body.excerpt.str = <<>>
  \/ body.imageUrl.given /\ body.imageUrl.str = ""

\* PUT /posts/:id with a body, past authenticateToken.
UpdatePostRequest(u, id, body) ==
  [Idle EXCEPT !.op = "updatePost", !.pc = "validate", !.user = u, !.id = id,
               !.body = body]

\* validateRequest(updatePostSchema)
ValidateUpdatePost(r) ==
  /\ At(r, "updatePost", "validate")
  /\ reqs' = [reqs EXCEPT ![r] = IF UpdatePostValidationError(reqs[r].body)
                                 THEN Respond(@, 400) ELSE [@ EXCEPT !.pc = "find"]]
  /\ UNCHANGED store
  /\ UNCHANGED client

\* The bodies that are sent: any of the five fields, an empty title, and
\* isPublished: true.
UpdatePostBodies ==
  {[title |-> title, content |-> content, excerpt |-> excerpt, imageUrl |-> imageUrl,
    tags |-> tags, isPublished |-> isPublished] :
     title \in {Absent, Given("b"), Given("")},
     content \in {Absent, Given(<<2>>)},
     excerpt \in {Absent, Given(<<9>>)},
     imageUrl \in {Absent, Given("u")},
     tags \in {Absent, Given(<<"t">>)},
     isPublished \in {Absent, Given(TRUE)}}

\* The posts at the start: any of them may be a draft, never published.
DraftPost(i) == [SeedPost(i) EXCEPT !.isPublished = FALSE, !.publishedAt = 0]

InitUpdatePost ==
  /\ \E drafts \in SUBSET PostIds :
       posts = {IF i \in drafts THEN DraftPost(i) ELSE SeedPost(i) : i \in PostIds}
  /\ comments = SeedComments /\ likes = SeedLikes
  /\ nextPostId = NumPosts + 1 /\ nextCommentId = MaxComments + 1
  /\ nextLikeId = NumPosts + 1
  /\ reqs \in [Solo -> {UpdatePostRequest(u, id, body) :
                          u \in Users, id \in 1..(NumPosts + 1), body \in UpdatePostBodies}]
  /\ cache = NoCache /\ mutations = NoMutations
  /\ useComments = NoCommentsState

NextUpdatePost ==
  \E r \in Solo :
    \/ ValidateUpdatePost(r) \/ UpdatePostFind(r) \/ UpdatePostUpdate(r)
    \/ UpdatePostRefetch(r)

SpecUpdatePost == InitUpdatePost /\ [][NextUpdatePost]_vars

\* ------------------------------------------------------------- authenticateToken
\* The Authorization header of a request: no token, a token jwt.verify
\* rejects, or a token it accepts, whose payload names user `id`.
Tokens ==
  {[kind |-> "none", id |-> 0]} \cup
  {[kind |-> k, id |-> u] : k \in {"invalid", "valid"}, u \in 1..(NumUsers + 1)}

\* What User.findByPk(decoded.id) finds: a registered user's row, active or
\* not, and no row for the id of a user who is gone.
AccountsOf(u) == IF u \in Users THEN {"active", "inactive"} ELSE {"missing"}

\* Faulty variant: only a user that is gone is turned away.
AccountRejectedIfMissing(account) == account = "missing"

\* if (!user || !user.isActive)
AccountRejected(account) == account # "active"

\* The first await of each handler behind authenticateToken.
FirstStep(op) ==
  CASE op = "createPost" -> "create"
    [] op \in {"likePost", "createComment"} -> "findPost"
    [] OTHER -> "find"

\* The token is missing, or jwt.verify throws and the catch answers.
AuthenticateToken(r) ==
  /\ reqs[r].pc = "auth"
  /\ reqs' = [reqs EXCEPT ![r] =
                IF reqs[r].token.kind # "valid" THEN Respond(@, 401)
                ELSE [@ EXCEPT !.pc = "authUser"]]
  /\ UNCHANGED store
  /\ UNCHANGED client

\* await User.findByPk(decoded.id), then req.user = ... and next().
AuthenticateTokenFindUser(r) ==
  /\ reqs[r].pc = "authUser"
  /\ \E account \in AccountsOf(reqs[r].token.id) :
       reqs' = [reqs EXCEPT ![r] =
                  IF AccountRejected(account)
                  THEN [Respond(@, 401) EXCEPT !.account = account]
                  ELSE [@ EXCEPT !.account = account, !.user = reqs[r].token.id,
                                 !.pc = FirstStep(reqs[r].op)]]
  /\ UNCHANGED store
  /\ UNCHANGED client

\* The requests to the routes behind authenticateToken.
ProtectedRequest(op, token) == [Idle EXCEPT !.op = op, !.pc = "auth", !.token = token]

ProtectedRequests ==
  UNION {
    {[ProtectedRequest("createPost", t) EXCEPT !.text = "a", !.content = ContentOfLength(1)]}
    \cup {[ProtectedRequest(op, t) EXCEPT !.id = id, !.text = "b",
                                          !.body.title = Given("b")] :
            op \in {"updatePost", "deletePost", "likePost"}, id \in PostIds}
    \cup {[ProtectedRequest(op, t) EXCEPT !.id = id, !.text = "b"] :
            op \in {"updateComment", "deleteComment"}, id \in 1..(MaxComments - 1)}
    \cup {[ProtectedRequest("createComment", t) EXCEPT !.postId = p, !.parentId = c,
                                                       !.text = "a"] :
            p \in PostIds, c \in {0, 1}}
    : t \in Tokens}

AuthComments == {SeedComment(i) : i \in 1..(MaxComments - 1)}

\* One request to a protected route over the database at start.
InitAuth ==
  /\ posts = SeedPosts /\ comments = AuthComments /\ likes = SeedLikes
  /\ nextPostId = NumPosts + 1 /\ nextCommentId = MaxComments
  /\ nextLikeId = NumPosts + 1
  /\ reqs \in [Solo -> ProtectedRequests]
  /\ cache = NoCache /\ mutations = NoMutations
  /\ useComments = NoCommentsState

NextAuth ==
  \E r \in Solo :
    \/ AuthenticateToken(r) \/ AuthenticateTokenFindUser(r)
    \/ CreatePostCreate(r) \/ CreatePostRefetch(r)
    \/ UpdatePostFind(r) \/ UpdatePostUpdate(r) \/ UpdatePostRefetch(r)
    \/ DeletePostFind(r) \/ DeletePostDestroy(r)
    \/ LikePostFindPost(r) \/ LikePostFindLike(r) \/ LikePostWrite(r)
    \/ CreateCommentFindPost(r) \/ CreateCommentFindParent(r)
    \/ CreateCommentCreate(r) \/ CreateCommentRefetch(r)
    \/ UpdateCommentFind(r) \/ UpdateCommentUpdate(r) \/ UpdateCommentRefetch(r)
    \/ DeleteCommentFind(r) \/ DeleteCommentDestroy(r)

SpecAuth == InitAuth /\ [][NextAuth]_vars

\* ------------------------------------------------------------- likePostMutation
\* likePostMutation.mutateAsync(postId): the mutation has been started and
\* its onMutate is past the awaits of cancelQueries.
NoContext == [defined |-> FALSE, previousPost |-> NoDetail, previousPosts |-> NoListing]
LikeMutation(postId) ==
  [pc |-> "onMutate", postId |-> postId, context |-> NoContext, error |-> "none"]

\* onMutate from the snapshot on: old.likeCount throws a TypeError when the
\* detail entry holds no data; the mutation then fails before its request is
\* sent, with no context.
LikeMutationOnMutate(m) ==
  /\ mutations[m].pc = "onMutate"
  /\ LET p == mutations[m].postId
         previousPost == cache.detail[p].data
         previousPosts == cache.listings["queryKey"].data
     IN IF ~previousPost.present
        THEN /\ mutations' = [mutations EXCEPT ![m].pc = "onError", ![m].error = "onMutate"]
             /\ UNCHANGED cache
        ELSE /\ cache' = [cache EXCEPT
                            !.detail[p] = SetQueryData(@, OptimisticDetail(previousPost)),
                            !.listings["queryKey"] =
                               SetQueryData(@, OptimisticListing(previousPosts, p))]
             /\ mutations' = [mutations EXCEPT
                                ![m].pc = "request",
                                ![m].context = [defined |-> TRUE,
                                                previousPost |-> previousPost,
                                                previousPosts |-> previousPosts]]
  /\ UNCHANGED <<server, useComments>>

\* postService.likePost(postId) resolves.
LikeMutationSucceeds(m) ==
  /\ mutations[m].pc = "request"
  /\ mutations' = [mutations EXCEPT ![m].pc = "onSettled"]
  /\ UNCHANGED <<cache, server, useComments>>

\* postService.likePost(postId) rejects: no connection, or an error status.
LikeMutationFails(m) ==
  /\ mutations[m].pc = "request"
  /\ mutations' = [mutations EXCEPT ![m].pc = "onError", ![m].error = "request"]
  /\ UNCHANGED <<cache, server, useComments>>

\* onError: if (context?.previousPost) ... if (context?.previousPosts) ...
LikeMutationOnError(m) ==
  /\ mutations[m].pc = "onError"
  /\ LET p == mutations[m].postId
         context == mutations[m].context
     IN cache' = [cache EXCEPT
                    !.detail[p] = IF context.defined /\ context.previousPost.present
                                  THEN SetQueryData(@, context.previousPost) ELSE @,
                    !.listings["queryKey"] =
                       IF context.defined /\ context.previousPosts.present
                       THEN SetQueryData(@, context.previousPosts) ELSE @]
  /\ mutations' = [mutations EXCEPT ![m].pc = "onSettled"]
  /\ UNCHANGED <<server, useComments>>

\* Faulty variant: only the hook's own listing is invalidated.
InvalidateOwnListing(listings) ==
  [listings EXCEPT !["queryKey"] = [@ EXCEPT !.isInvalidated = TRUE]]

\* queryClient.invalidateQueries(['posts']): every entry whose key starts
\* with 'posts'.
InvalidateListings(listings) ==
  [k \in DOMAIN listings |-> [listings[k] EXCEPT !.isInvalidated = TRUE]]

\* onSettled, after success and after failure alike.
LikeMutationOnSettled(m) ==
  /\ mutations[m].pc = "onSettled"
  /\ cache' = [cache EXCEPT !.detail[mutations[m].postId].isInvalidated = TRUE,
                            !.listings = InvalidateListings(@)]
  /\ mutations' = [mutations EXCEPT ![m].pc = "settled"]
  /\ UNCHANGED <<server, useComments>>

\* The browser holds the detail of no post, of post 1 or of every post, fetched
\* when the user was shown as not liking it, and may hold the listings; it has
\* started its like mutations, numbered here in the order of their posts.
InitClient ==
  /\ posts = SeedPosts /\ comments = SeedComments /\ likes = SeedLikes
  /\ nextPostId = NumPosts + 1 /\ nextCommentId = MaxComments + 1
  /\ nextLikeId = NumPosts + 1
  /\ reqs = [r \in Solo |-> Idle]
  /\ useComments = NoCommentsState
  /\ \E fetched \in {{}, {1}, PostIds},
        own \in {NoListing, FetchedListing(FALSE), FetchedListing(TRUE)},
        drafts \in {NoListing, FetchedListing(FALSE)} :
       cache = [detail |-> [p \in PostIds |->
                              [data |-> IF p \in fetched THEN FetchedDetail(FALSE)
                                        ELSE NoDetail,
                               isInvalidated |-> FALSE]],
                listings |-> [k \in ListingKeys |->
                                [data |-> IF k = "queryKey" THEN own ELSE drafts,
                                 isInvalidated |-> FALSE]]]
  /\ mutations \in [1..MaxReq -> {LikeMutation(p) : p \in PostIds}]
  /\ \A m, n \in 1..MaxReq : m <= n => mutations[m].postId <= mutations[n].postId

NextClient ==
  \E m \in 1..MaxReq :
    \/ LikeMutationOnMutate(m) \/ LikeMutationSucceeds(m) \/ LikeMutationFails(m)
    \/ LikeMutationOnError(m) \/ LikeMutationOnSettled(m)

SpecClient == InitClient /\ [][NextClient]_vars

\* The browser runs queued callbacks, and a request that was sent is answered
\* or fails.
SpecClientFair == SpecClient /\ WF_vars(NextClient)

\* ------------------------------------------------------------- createPostMutation, updatePostMutation, deletePostMutation
\* The key ['post', undefined] that setQueryData is given when the id it reads
\* is undefined.
UndefinedKey == 0
DetailKeys == PostIds \cup {UndefinedKey}

\* ['post', id] for a JavaScript value id.
PostKey(id) == IF id.t = "number" THEN id.v ELSE UndefinedKey

\* What postService.createPost and postService.updatePost resolve to: the
\* response body { message, post }, an object with no property id.
PostResponse(id, title) ==
  [present |-> TRUE, id |-> JsUndefined,
   post |-> [id |-> JsNumber(id), title |-> title]]

\* What postService.deletePost resolves to: { message }.
DeleteResponse == [present |-> TRUE, id |-> JsUndefined]

PostMutationKinds == {"createPost", "updatePost", "deletePost"}

\* mutateAsync of one of the three mutations: none has an onMutate, the
\* request is sent at once.  A post that is created gets the next id.
PostMutation(kind, postId) ==
  [pc |-> "request", kind |-> kind, postId |-> postId, response |-> NoDetail,
   error |-> "none"]

\* The request resolves with the response body of the handler.
PostMutationSucceeds(m) ==
  /\ mutations[m].pc = "request"
  /\ \E title \in Texts \ {"a"} :
       mutations' = [mutations EXCEPT
                       ![m].pc = "onSuccess",
                       ![m].response = IF mutations[m].kind = "deletePost"
                                       THEN DeleteResponse
                                       ELSE PostResponse(mutations[m].postId, title)]
  /\ UNCHANGED <<cache, server, useComments>>

\* The request rejects.
PostMutationFails(m) ==
  /\ mutations[m].pc = "request"
  /\ mutations' = [mutations EXCEPT ![m].pc = "onError", ![m].error = "request"]
  /\ UNCHANGED <<cache, server, useComments>>

\* onError: console.error only.
PostMutationOnError(m) ==
  /\ mutations[m].pc = "onError"
  /\ mutations' = [mutations EXCEPT ![m].pc = "done"]
  /\ UNCHANGED <<cache, server, useComments>>

\* queryClient.removeQueries(['post', id]): the entry is gone.
RemoveQuery(entry) == [data |-> NoDetail, isInvalidated |-> FALSE]

\* onSuccess of createPostMutation: invalidateQueries(['posts']), then
\* setQueryData(['post', newPost.id], newPost).
CreatePostOnSuccess(m) ==
  /\ mutations[m].pc = "onSuccess" /\ mutations[m].kind = "createPost"
  /\ LET newPost == mutations[m].response IN
       cache' = [cache EXCEPT !.listings = InvalidateListings(@),
                              !.detail[PostKey(newPost.id)] = SetQueryData(@, newPost)]
  /\ mutations' = [mutations EXCEPT ![m].pc = "done"]
  /\ UNCHANGED <<server, useComments>>

\* onSuccess of updatePostMutation: setQueryData(['post', updatedPost.id],
\* updatedPost), then invalidateQueries(['posts']).
UpdatePostOnSuccess(m) ==
  /\ mutations[m].pc = "onSuccess" /\ mutations[m].kind = "updatePost"
  /\ LET updatedPost == mutations[m].response IN
       cache' = [cache EXCEPT !.detail[PostKey(updatedPost.id)] = SetQueryData(@, updatedPost),
                              !.listings = InvalidateListings(@)]
  /\ mutations' = [mutations EXCEPT ![m].pc = "done"]
  /\ UNCHANGED <<server, useComments>>

\* onSuccess of deletePostMutation: removeQueries(['post', deletedPostId]),
\* then invalidateQueries(['posts']).
DeletePostOnSuccess(m) ==
  /\ mutations[m].pc = "onSuccess" /\ mutations[m].kind = "deletePost"
  /\ cache' = [cache EXCEPT !.detail[mutations[m].postId] = RemoveQuery(@),
                            !.listings = InvalidateListings(@)]
  /\ mutations' = [mutations EXCEPT ![m].pc = "done"]
  /\ UNCHANGED <<server, useComments>>

\* The browser holds the detail of no post, of post 1 or of every post and
\* may hold the listings, all fresh; it has started its post mutations, the
\* creating ones for the id the server hands out next.
InitPostMutations ==
  /\ posts = SeedPosts /\ comments = SeedComments /\ likes = SeedLikes
  /\ nextPostId = NumPosts + 1 /\ nextCommentId = MaxComments + 1
  /\ nextLikeId = NumPosts + 1
  /\ reqs = [r \in Solo |-> Idle]
  /\ useComments = NoCommentsState
  /\ \E fetched \in {{}, {1}, PostIds},
        own \in {NoListing, FetchedListing(FALSE)},
        drafts \in {NoListing, FetchedListing(FALSE)} :
       cache = [detail |-> [p \in DetailKeys |->
                              [data |-> IF p \in fetched THEN FetchedDetail(FALSE)
                                        ELSE NoDetail,
                               isInvalidated |-> FALSE]],
                listings |-> [k \in ListingKeys |->
                                [data |-> IF k = "queryKey" THEN own ELSE drafts,
                                 isInvalidated |-> FALSE]]]
  /\ mutations \in [1..MaxReq ->
                      {PostMutation("createPost", nextPostId)}
                      \cup {PostMutation(k, p) : k \in {"updatePost", "deletePost"},
                                                 p \in PostIds}]

NextPostMutations ==
  \E m \in 1..MaxReq :
    \/ PostMutationSucceeds(m) \/ PostMutationFails(m) \/ PostMutationOnError(m)
    \/ CreatePostOnSuccess(m) \/ UpdatePostOnSuccess(m) \/ DeletePostOnSuccess(m)

SpecPostMutations == InitPostMutations /\ [][NextPostMutations]_vars

\* ------------------------------------------------------------- useComments
\* A comment as the hook holds it: `replies` is an array or is undefined.
NoReplies == [defined |-> FALSE, list |-> <<>>]
Replies(list) == [defined |-> TRUE, list |-> list]
HookComment(id, content, replies) == [id |-> id, content |-> content, replies |-> replies]

\* response.comments of getComments for a post: the top-level comments,
\* newest first, each with the array of its replies; a reply comes without
\* `replies`.
FetchedComments(p) ==
  LET rows == NewestFirst({c.id : c \in {d \in SeedComments : d.postId = p /\ d.parentId = 0}})
      replies(c) == OldestFirst({d.id : d \in {e \in SeedComments : e.parentId = c}})
  IN [k \in 1..Len(rows) |->
        HookComment(rows[k], "a",
                    Replies([j \in 1..Len(replies(rows[k])) |->
                               HookComment(replies(rows[k])[j], "a", NoReplies)]))]

\* response.comment of updateComment: the comment with its author, without
\* `replies`.
UpdateCommentResponse(id, content) == HookComment(id, content, NoReplies)

\* A call of updateComment or deleteComment that awaits commentService.
HookCall(kind, commentId) ==
  [pc |-> "request", kind |-> kind, commentId |-> commentId, content |-> "b",
   error |-> "none"]

\* The updater of deleteComment: prev.filter(...).map(comment => ({ ...comment,
\* replies: comment.replies?.filter(...) || [] }))
DeleteCommentUpdater(prev, commentId) ==
  LET kept == SelectSeq(prev, LAMBDA comment : comment.id # commentId)
  IN [i \in 1..Len(kept) |->
        [kept[i] EXCEPT !.replies =
           IF kept[i].replies.defined
           THEN Replies(SelectSeq(kept[i].replies.list, LAMBDA reply : reply.id # commentId))
           ELSE Replies(<<>>)]]

\* The updater of updateComment: prev.map(comment => comment.id === commentId
\* ? response.comment : { ...comment, replies: comment.replies?.map(...) || [] })
UpdateCommentUpdater(prev, commentId, response) ==
  [i \in 1..Len(prev) |->
     IF prev[i].id = commentId THEN response
     ELSE [prev[i] EXCEPT !.replies =
             IF prev[i].replies.defined
             THEN Replies([j \in 1..Len(prev[i].replies.list) |->
                             IF prev[i].replies.list[j].id = commentId THEN response
                             ELSE prev[i].replies.list[j]])
             ELSE Replies(<<>>)]]

\* commentService.updateComment resolves; setComments runs in the same turn.
UseCommentsUpdateComment(m) ==
  /\ mutations[m].pc = "request" /\ mutations[m].kind = "updateComment"
  /\ useComments' = UpdateCommentUpdater(useComments, mutations[m].commentId,
                       UpdateCommentResponse(mutations[m].commentId, mutations[m].content))
  /\ mutations' = [mutations EXCEPT ![m].pc = "done"]
  /\ UNCHANGED <<cache, server>>

\* commentService.deleteComment resolves.
UseCommentsDeleteComment(m) ==
  /\ mutations[m].pc = "request" /\ mutations[m].kind = "deleteComment"
  /\ useComments' = DeleteCommentUpdater(useComments, mutations[m].commentId)
  /\ mutations' = [mutations EXCEPT ![m].pc = "done"]
  /\ UNCHANGED <<cache, server>>

\* The service rejects: the catch rethrows, the state stays.
UseCommentsRejected(m) ==
  /\ mutations[m].pc = "request"
  /\ mutations[m].kind \in {"updateComment", "deleteComment"}
  /\ mutations' = [mutations EXCEPT ![m].pc = "done", ![m].error = "request"]
  /\ UNCHANGED <<cache, server, useComments>>

\* The hook shows the comments of a post as fetched; the user has started
\* updates and deletes of comments.
InitUseComments ==
  /\ posts = SeedPosts /\ comments = SeedComments /\ likes = SeedLikes
  /\ nextPostId = NumPosts + 1 /\ nextCommentId = MaxComments + 1
  /\ nextLikeId = NumPosts + 1
  /\ reqs = [r \in Solo |-> Idle]
  /\ cache = NoCache
  /\ \E p \in PostIds : useComments = FetchedComments(p)
  /\ mutations \in [1..MaxReq -> {HookCall(kind, c) :
                                    kind \in {"updateComment", "deleteComment"},
                                    c \in CommentIds}]

NextUseComments ==
  \E m \in 1..MaxReq :
    \/ UseCommentsUpdateComment(m) \/ UseCommentsDeleteComment(m)
    \/ UseCommentsRejected(m)

SpecUseComments == InitUseComments /\ [][NextUseComments]_vars

\* ------------------------------------------------------------- properties of the like toggle
LikeCalls(u, p) ==
  {r \in Reqs : reqs[r].op = "likePost" /\ reqs[r].user = u /\ reqs[r].id = p}

LikeCallsDone(u, p) == {r \in LikeCalls(u, p) : reqs[r].pc = "done"}

\* C1: on an existing post and a pair without a Like row, the k-th of the
\* sequential likePost(u, p) calls answers 200 with liked = TRUE for odd k and
\* liked = FALSE for even k, and after n calls the pair has one row if n is
\* odd and none if n is even.
C1_ToggleAlternates ==
  \A u \in Users, p \in PostIds :
    /\ \A r \in LikeCallsDone(u, p) :
         /\ reqs[r].status = 200
         /\ reqs[r].liked = (Cardinality({q \in LikeCallsDone(u, p) : q <= r}) % 2 = 1)
    /\ Cardinality(LikesOf(u, p)) = Cardinality(LikeCallsDone(u, p)) % 2

C1_ThreeCallsOneRow ==
  \E u \in Users, p \in PostIds :
    /\ Cardinality(LikeCallsDone(u, p)) >= 3
    /\ Cardinality(LikesOf(u, p)) = 1

\* C2 as claimed: two likePost(u, p) requests in flight together on a pair
\* without a row leave exactly one Like(u, p) row once both have answered.
C2_RaceLeavesExactlyOne ==
  \A u \in Users, p \in PostIds :
    (Cardinality(LikeCalls(u, p)) = 2 /\ LikeCallsDone(u, p) = LikeCalls(u, p))
      => Cardinality(LikesOf(u, p)) = 1

\* C2 amended: the two requests leave exactly one row when both looked the
\* like up before either inserted it (one INSERT is rejected), and no row
\* when one of them found the other's row and deleted it.
C2_RaceLeavesOneOrNone ==
  \A u \in Users, p \in PostIds :
    (Cardinality(LikeCalls(u, p)) = 2 /\ LikeCallsDone(u, p) = LikeCalls(u, p))
      => Cardinality(LikesOf(u, p)) =
           IF \A r \in LikeCalls(u, p) : reqs[r].like = 0 THEN 1 ELSE 0

C2_BothFoundNone ==
  \E u \in Users, p \in PostIds :
    /\ Cardinality(LikeCalls(u, p)) = 2 /\ LikeCallsDone(u, p) = LikeCalls(u, p)
    /\ \A r \in LikeCalls(u, p) : reqs[r].like = 0
    /\ Cardinality(LikesOf(u, p)) = 1

\* C3: at most one Like row for each (userId, postId) pair, in every
\* reachable state of any interleaving of like requests.
C3_LikePairUnique ==
  \A u \in Users, p \in PostIds : Cardinality(LikesOf(u, p)) <= 1

C3_DuplicateInsertRejected ==
  \E r \in Reqs :
    /\ reqs[r].pc = "done" /\ reqs[r].status = 500
    /\ Cardinality(LikesOf(reqs[r].user, reqs[r].id)) = 1

\* C4: every likePost request on an existing post is answered with a success
\* status, also when its insert or delete is the duplicate of a concurrent one.
C4_RaceAnswersSuccess ==
  \A r \in Reqs :
    (reqs[r].op = "likePost" /\ reqs[r].pc = "done" /\ reqs[r].id \in PostIds)
      => reqs[r].status = 200

\* ------------------------------------------------------------- properties of the mutations
OwnedOps == {"updatePost", "deletePost", "updateComment", "deleteComment"}

Target(q) ==
  IF q.op \in {"updatePost", "deletePost"}
  THEN [id |-> PostFindByPk(q.id).id, authorId |-> PostFindByPk(q.id).authorId]
  ELSE [id |-> CommentFindByPk(q.id).id, authorId |-> CommentFindByPk(q.id).authorId]

\* C5: updatePost, deletePost, updateComment and deleteComment answer 404 when
\* the id matches no entity and 403 when the actor is not the entity's author,
\* and in both cases the request ends there with every Post, Comment and Like
\* row as it was.
C5_OwnershipEnforced ==
  [][\A r \in Reqs :
       (reqs[r].op \in OwnedOps /\ reqs[r].pc = "find" /\ reqs'[r].pc # "find")
         => LET e == Target(reqs[r]) IN
              /\ e.id = 0 =>
                   reqs'[r].pc = "done" /\ reqs'[r].status = 404 /\ store' = store
              /\ (e.id # 0 /\ e.authorId # reqs[r].user) =>
                   reqs'[r].pc = "done" /\ reqs'[r].status = 403 /\ store' = store]_vars

C5_ForbiddenAnswered ==
  \E r \in Reqs :
    /\ reqs[r].op = "deleteComment" /\ reqs[r].pc = "done" /\ reqs[r].status = 403
    /\ CommentFindByPk(reqs[r].id).id # 0
    /\ CommentFindByPk(reqs[r].id).authorId # reqs[r].user

ParentsOnSamePost ==
  \A c \in comments :
    c.parentId # 0 =>
      \E d \in comments : d.id = c.parentId /\ d.postId = c.postId

\* C6: createComment with a parentId that matches no comment, or a comment of
\* another post, answers 404 and creates no Comment row; a createComment
\* answered 404 never changes the comments; and every stored comment with a
\* parentId has its parent on its own post.
C6_ParentOnSamePost ==
  /\ []ParentsOnSamePost
  /\ [][\A r \in Reqs :
          /\ (At(r, "createComment", "findParent") /\ reqs'[r].pc # "findParent"
              /\ (CommentFindByPk(reqs[r].parentId).id = 0
                  \/ CommentFindByPk(reqs[r].parentId).postId # reqs[r].postId))
               => reqs'[r].pc = "done" /\ reqs'[r].status = 404
          /\ (reqs[r].op = "createComment" /\ reqs[r].pc # "done"
              /\ reqs'[r].pc = "done" /\ reqs'[r].status = 404)
               => comments' = comments]_vars

C6_CrossPostParentRejected ==
  \E r \in Reqs :
    /\ reqs[r].op = "createComment" /\ reqs[r].pc = "done" /\ reqs[r].status = 404
    /\ PostFindByPk(reqs[r].postId).id # 0
    /\ CommentFindByPk(reqs[r].parentId).id # 0
    /\ CommentFindByPk(reqs[r].parentId).postId # reqs[r].postId
    /\ \E c \in comments : c.parentId # 0

\* ------------------------------------------------------------- properties of the listing
ListingsDone == {r \in Reqs : reqs[r].op = "getPosts" /\ reqs[r].pc = "done"}

\* C7: the queries of one getPosts request are those of its listing query;
\* their number does not grow with the number of posts on the page.
C7_QueriesIndependentOfPageSize ==
  \A r \in ListingsDone : reqs[r].queries <= FindAndCountAllQueries

\* C8: every post of a listing carries commentCount = the number of Comment
\* rows of the post (replies included) and likeCount = the number of its Like
\* rows.
C8_CountsMatchRows ==
  \A r \in ListingsDone :
    \A k \in 1..Len(reqs[r].items) :
      LET item == reqs[r].items[k] IN
        /\ item.commentCount = Cardinality({c \in comments : c.postId = item.id})
        /\ item.likeCount = Cardinality({l \in likes : l.postId = item.id})

C8_PostWithReplyListed ==
  \E r \in ListingsDone :
    \E k \in 1..Len(reqs[r].items) :
      /\ reqs[r].items[k].commentCount >= 2
      /\ reqs[r].items[k].likeCount >= 1
      /\ \E c \in comments : c.postId = reqs[r].items[k].id /\ c.parentId # 0

\* C9: a listing holds at most limit posts, totalItems is the number of
\* published posts, totalPages = ceil(totalItems / limit), hasNextPage =
\* (page < totalPages) and hasPrevPage = (page > 1).
C9_PaginationMatchesPosts ==
  \A r \in ListingsDone :
    LET q == reqs[r]
        pg == q.pagination
    IN /\ Len(q.items) <= q.limit
       /\ pg.totalItems = Cardinality(PublishedPosts)
       /\ pg.totalPages = Ceil(pg.totalItems, q.limit)
       /\ pg.hasNextPage = (q.page < pg.totalPages)
       /\ pg.hasPrevPage = (q.page > 1)

\* ------------------------------------------------------------- properties of the detail read
DetailReadsAnswered(p) ==
  {r \in Reqs : reqs[r].op = "getPostById" /\ reqs[r].id = p
                /\ reqs[r].pc = "done" /\ reqs[r].status = 200}

\* C10: once the detail reads in flight have all been answered, each post's
\* stored viewCount (0 before them) is the number of successful reads of it,
\* whatever the interleaving was.
C10_ViewCountCountsReads ==
  (\A r \in Reqs : reqs[r].op = "getPostById" => reqs[r].pc = "done") =>
    \A p \in posts : p.viewCount = Cardinality(DetailReadsAnswered(p.id))

\* C11: a detail read of a post that is missing or unpublished answers 404 at
\* its lookup and writes nothing: the step leaves every table as it was, and
\* an unpublished post keeps the viewCount it had (0).
C11_NotFoundChangesNothing ==
  /\ [](\A p \in posts : ~p.isPublished => p.viewCount = 0)
  /\ [][\A r \in Reqs :
          (/\ At(r, "getPostById", "find")
           /\ reqs'[r] # reqs[r]
           /\ (PostFindByPk(reqs[r].id).id = 0 \/ ~PostFindByPk(reqs[r].id).isPublished))
          => /\ reqs'[r].pc = "done" /\ reqs'[r].status = 404
             /\ store' = store]_vars

C11_DraftAnsweredNotFound ==
  \E r \in Reqs :
    /\ reqs[r].op = "getPostById" /\ reqs[r].pc = "done" /\ reqs[r].status = 404
    /\ PostFindByPk(reqs[r].id).id # 0
    /\ ~PostFindByPk(reqs[r].id).isPublished
    /\ \E q \in Reqs : q # r /\ reqs[q].pc = "done" /\ reqs[q].status = 200

\* ------------------------------------------------------------- properties of the comment listing
CommentListingsDone ==
  {r \in Reqs : reqs[r].op = "getComments" /\ reqs[r].pc = "done" /\ reqs[r].status = 200}

Ascending(seq) == \A i, j \in 1..Len(seq) : i < j => seq[i] < seq[j]

\* C12: a comment listing gives the top-level comments of its page oldest
\* first, and the replies of each of them oldest first.
C12_CommentsOldestFirst ==
  \A r \in CommentListingsDone :
    /\ Ascending([k \in 1..Len(reqs[r].items) |-> reqs[r].items[k].id])
    /\ \A k \in 1..Len(reqs[r].items) : Ascending(reqs[r].items[k].replies)

\* C13: a comment listing holds at most limit top-level comments, its
\* totalItems is the number of top-level comments of the post whatever their
\* replies, hasNextPage follows from it, and a missing post is answered 404.
C13_CommentPaginationOverTopLevel ==
  \A r \in Reqs :
    (reqs[r].op = "getComments" /\ reqs[r].pc = "done") =>
      LET q == reqs[r]
          total == Cardinality(TopLevelComments(q.id))
      IN IF PostFindByPk(q.id).id = 0 THEN q.status = 404
         ELSE /\ q.status = 200
              /\ Len(q.items) <= q.limit
              /\ q.pagination.totalItems = total
              /\ q.pagination.hasNextPage = (q.page < Ceil(total, q.limit))

\* ------------------------------------------------------------- properties of the detail response
DetailsAnswered ==
  {r \in Reqs : reqs[r].op = "getPostById" /\ reqs[r].pc = "done" /\ reqs[r].status = 200}

\* C14: the comments of a detail response are the top-level comments of the
\* post; a reply is not an element of that list.
C14_DetailCommentsTopLevel ==
  \A r \in DetailsAnswered :
    \A k \in 1..Len(reqs[r].rows) : CommentFindByPk(reqs[r].rows[k]).parentId = 0

\* C15: no response carries the password column of a user.
C15_NoPasswordInResponse ==
  \A r \in Reqs : reqs[r].pc = "done" => "password" \notin reqs[r].exposed

\* ------------------------------------------------------------- properties of createPost
PostsCreated ==
  {r \in Reqs : reqs[r].op = "createPost" /\ reqs[r].pc = "done" /\ reqs[r].status = 201}

\* C16: a post created without an excerpt is stored with the first 200
\* characters of its content followed by '...' as excerpt, a post created with
\* an excerpt keeps that excerpt, and either is stored published, with a
\* publishedAt value and viewCount 0.
C16_ExcerptDerivedOrKept ==
  \A r \in PostsCreated :
    LET q == reqs[r]
        post == PostFindByPk(q.post.id)
    IN /\ post.id # 0 /\ post = q.post
       /\ post.content = q.content
       /\ q.excerpt = <<>> =>
            /\ Len(post.excerpt) = Min(ExcerptLength, Len(q.content)) + 3
            /\ \A i \in 1..Len(post.excerpt) :
                 post.excerpt[i] = IF i <= Min(ExcerptLength, Len(q.content))
                                   THEN q.content[i] ELSE 0
       /\ q.excerpt # <<>> => post.excerpt = q.excerpt
       /\ post.isPublished /\ post.publishedAt # 0 /\ post.viewCount = 0

C16_LongContentTruncated ==
  /\ \E r \in PostsCreated :
       /\ reqs[r].excerpt = <<>> /\ Len(reqs[r].content) > ExcerptLength
       /\ Len(PostFindByPk(reqs[r].post.id).excerpt) = ExcerptLength + 3
  /\ \E p \in posts : p.id > NumPosts /\ p.excerpt = <<9>>

\* ------------------------------------------------------------- properties of the cascades
\* Every comment and like is on a stored post, every reply has a stored parent.
ReferentialIntegrity ==
  /\ \A c \in comments :
       /\ PostFindByPk(c.postId).id # 0
       /\ c.parentId # 0 => CommentFindByPk(c.parentId).id # 0
  /\ \A l \in likes : PostFindByPk(l.postId).id # 0

\* C17: the step that deletes post p leaves no comment and no like of p, the
\* step that deletes comment c leaves no reply to c, and in every state the
\* comments and likes refer to stored posts.
C17_DeletesCascade ==
  /\ []ReferentialIntegrity
  /\ [][\A r \in Reqs :
          /\ (At(r, "deletePost", "destroy") /\ reqs'[r].pc = "done") =>
               /\ reqs'[r].status = 200
               /\ \A c \in comments' : c.postId # reqs[r].id
               /\ \A l \in likes' : l.postId # reqs[r].id
          /\ (At(r, "deleteComment", "destroy") /\ reqs'[r].pc = "done") =>
               /\ reqs'[r].status = 200
               /\ \A c \in comments' : c.parentId # reqs[r].id /\ c.id # reqs[r].id]_vars

C17_PostWithRowsDeleted ==
  \E r \in Reqs :
    /\ reqs[r].op = "deletePost" /\ reqs[r].pc = "done" /\ reqs[r].status = 200
    /\ \E l \in SeedLikes : l.postId = reqs[r].id /\ l \notin likes
    /\ \E c \in SeedComments : c.postId = reqs[r].id /\ c.parentId # 0 /\ c \notin comments
    /\ comments # {}

\* ------------------------------------------------------------- properties of authenticateToken
\* The request carries no token, a token that does not verify, or the token
\* of a user found missing or inactive.
Unverified(q) ==
  \/ q.token.kind # "valid"
  \/ q.account \in {"missing", "inactive"}

C19_RollbackRestoresSnapshot ==
  [][\A m \in DOMAIN mutations :
       (/\ mutations[m].pc = "onError" /\ mutations[m].error = "request"
        /\ mutations'[m].pc = "onSettled")
       => /\ cache'.detail[mutations[m].postId].data = mutations[m].context.previousPost
          /\ cache'.listings["queryKey"].data = mutations[m].context.previousPosts]_vars

\* C27: the onMutate step of a like mutation for a post that the listing
\* entry shows and whose detail entry holds no data flips the post in the
\* listing entry and goes on to send the request.
C27_ListingFlippedWithoutDetail ==
  [][\A m \in DOMAIN mutations :
       LET p == mutations[m].postId
           listing == cache.listings["queryKey"].data
       IN (/\ mutations[m].pc = "onMutate" /\ mutations'[m].pc # "onMutate"
           /\ ~cache.detail[p].data.present
           /\ \E i \in DOMAIN listing.posts : listing.posts[i].id = p)
          => /\ mutations'[m].pc = "request"
             /\ cache'.listings["queryKey"].data = OptimisticListing(listing, p)]_vars

\* C28: when two like mutations on one post overlapped (the second took its
\* snapshot from the first one's optimistic update, the first having found
\* data in both entries), both requests failed and both onError steps have
\* run, while no other mutation has acted, the detail entry and the listing
\* entry hold the snapshot of the first.
C28_OverlappingRollbacksRestore ==
  \A m, n \in DOMAIN mutations :
    (/\ m # n /\ mutations[m].postId = mutations[n].postId
     /\ \A k \in {m, n} : /\ mutations[k].error = "request"
                          /\ mutations[k].pc \in {"onSettled", "settled"}
     /\ mutations[m].context.previousPosts.present
     /\ mutations[n].context.previousPost = OptimisticDetail(mutations[m].context.previousPost)
     /\ \A k \in DOMAIN mutations \ {m, n} : mutations[k].pc = "onMutate")
    => /\ cache.detail[mutations[m].postId].data = mutations[m].context.previousPost
       /\ cache.listings["queryKey"].data = mutations[m].context.previousPosts

\* C20: every like mutation that was started settles, after success and after
\* failure alike, and its settling step leaves the detail entry of the post
\* and every listing entry invalidated.
C20_SettlesAndInvalidates ==
  /\ \A m \in 1..MaxReq : (mutations[m].pc = "onMutate") ~> (mutations[m].pc = "settled")
  /\ [][\A m \in DOMAIN mutations :
          (mutations[m].pc # "settled" /\ mutations'[m].pc = "settled")
          => /\ mutations[m].pc = "onSettled"
             /\ cache'.detail[mutations[m].postId].isInvalidated
             /\ \A k \in ListingKeys : cache'.listings[k].isInvalidated]_vars

C20_SettledAfterFailure ==
  \E m, n \in DOMAIN mutations :
    /\ mutations[m].pc = "settled" /\ mutations[m].error = "request"
    /\ mutations[n].pc = "settled" /\ mutations[n].error = "none"
    /\ cache.detail[mutations[m].postId].isInvalidated
    /\ cache.listings["drafts"].isInvalidated /\ cache.listings["drafts"].data.present

\* ------------------------------------------------------------- properties of the getPosts query string
QueriesAnswered == {r \in DOMAIN reqs : reqs[r].op = "getPosts" /\ reqs[r].pc = "done"}

\* A page or limit that was sent and is not a positive number.
InvalidNumber(param) ==
  param.given /\ (ParseInt(param.str).t # "number" \/ ParseInt(param.str).v <= 0)
OrDefaultNumber(param, default) ==
  ParseInt(IF InvalidNumber(param) THEN default ELSE OrDefault(param, default)).v

\* C22: a listing whose page or limit is invalid is answered 200 with the
\* page and the pagination of the request in which each invalid one is
\* replaced by its default.
C22_InvalidPagingFallsBack ==
  \A r \in QueriesAnswered :
    LET query == reqs[r].query
        page == OrDefaultNumber(query.page, DefaultPage)
        limit == OrDefaultNumber(query.limit, DefaultLimit)
        found == {p.id : p \in {p \in posts : WhereClause(query, p)}}
    IN (InvalidNumber(query.page) \/ InvalidNumber(query.limit))
       => /\ reqs[r].status = 200
          /\ reqs[r].rows = PageWindow(NewestFirst(found), (page - 1) * limit, limit)
          /\ reqs[r].pagination = Pagination(page, limit, reqs[r].count)

\* C23: a listing sorted by something that is not a column of the posts is
\* answered 400 and has issued no query.
C23_UnknownSortByRejected ==
  \A r \in QueriesAnswered :
    (reqs[r].query.sortBy.given /\ reqs[r].query.sortBy.str \notin PostColumns)
    => reqs[r].status = 400 /\ reqs[r].queries = 0

\* str occurs in text, letter case aside.
Contains(text, str) ==
  \E i \in 1..(Len(text) - Len(str) + 1) :
    SubSeq(Lower(text), i, i + Len(str) - 1) = Lower(str)

\* C25: a listing with the default paging returns exactly the published
\* posts whose title or content contains the search term, when one is given,
\* and that are of the author, when one is given.
C25_ListsExactlyMatchingPublished ==
  \A r \in QueriesAnswered :
    LET query == reqs[r].query IN
      (~query.page.given /\ ~query.limit.given /\ ~query.sortBy.given)
      => /\ reqs[r].status = 200
         /\ {reqs[r].items[i].id : i \in DOMAIN reqs[r].items}
            = {p.id : p \in {p \in posts :
                  /\ p.isPublished
                  /\ query.search.given
                     => Contains(p.title, query.search.str)
                        \/ Contains(p.content, query.search.str)
                  /\ query.authorId.given
                     => JsNumber(p.authorId) = ParseInt(query.authorId.str)}}

\* ------------------------------------------------------------- properties of reads beside like toggles
\* C26: in every answer of getPostById and getPosts, a post reported as liked
\* by the viewer is reported with a likeCount of at least 1.
C26_LikedImpliesCounted ==
  \A r \in DOMAIN reqs :
    (reqs[r].pc = "done" /\ reqs[r].status = 200)
    => /\ reqs[r].op = "getPostById" => (reqs[r].liked => reqs[r].cur.likeCount >= 1)
       /\ reqs[r].op = "getPosts"
          => \A i \in DOMAIN reqs[r].items :
               reqs[r].items[i].isLiked => reqs[r].items[i].likeCount >= 1

\* ------------------------------------------------------------- properties of updatePost
\* C24: the UPDATE of an updatePost request leaves every other post as it was
\* and, in its own post, sets title, content, excerpt and imageUrl to the value
\* sent when one was sent and keeps every other field, authorId, viewCount,
\* isPublished and publishedAt among them; no other step of the request
\* changes a post.
C24_UpdateChangesSuppliedOnly ==
  [][\A r \in DOMAIN reqs :
       reqs[r].op = "updatePost"
       => IF reqs[r].pc = "update" /\ reqs'[r].pc = "refetch"
          THEN /\ {p.id : p \in posts'} = {p.id : p \in posts}
               /\ \A p \in posts :
                    LET body == reqs[r].body
                        after == CHOOSE q \in posts' : q.id = p.id
                    IN IF p.id # reqs[r].post.id THEN after = p
                       ELSE after =
                         [p EXCEPT
                            !.title = IF body.title.given THEN body.title.str ELSE @,
                            !.content = IF body.content.given THEN body.content.str ELSE @,
                            !.excerpt = IF body.excerpt.given THEN body.excerpt.str ELSE @,
                            !.imageUrl = IF body.imageUrl.given THEN body.imageUrl.str ELSE @]
          ELSE posts' = posts]_vars

C24_DraftContentUpdated ==
  \E r \in DOMAIN reqs :
    /\ reqs[r].op = "updatePost" /\ reqs[r].pc = "done" /\ reqs[r].status = 200
    /\ ~reqs[r].body.title.given /\ reqs[r].body.content.given
    /\ reqs[r].body.tags.given
    /\ LET post == PostFindByPk(reqs[r].id) IN
         /\ post.title = "a" /\ post.content = reqs[r].body.content.str
         /\ ~post.isPublished /\ post.publishedAt = 0

\* ------------------------------------------------------------- properties of useComments
\* The replies a comment of the hook carries, none when it has no list.
RepliesList(comment) == IF comment.replies.defined THEN comment.replies.list ELSE <<>>

\* C29: a resolved updateComment changes the content of the comment or reply
\* with that id and nothing else, the replies of a top-level comment
\* included; a resolved deleteComment removes the comment or reply with that
\* id, a top-level comment together with its replies, and nothing else.
C29_HookChangesOnlyThatComment ==
  [][\A m \in DOMAIN mutations :
       (/\ mutations[m].pc = "request" /\ mutations'[m].pc = "done"
        /\ mutations'[m].error = "none")
       => LET id == mutations[m].commentId
              kept == SelectSeq(useComments, LAMBDA comment : comment.id # id)
          IN IF mutations[m].kind = "updateComment"
             THEN /\ Len(useComments') = Len(useComments)
                  /\ \A i \in 1..Len(useComments) :
                       LET before == useComments[i]
                           after == useComments'[i]
                       IN /\ after.id = before.id
                          /\ after.content = IF before.id = id THEN mutations[m].content
                                             ELSE before.content
                          /\ Len(RepliesList(after)) = Len(RepliesList(before))
                          /\ \A j \in 1..Len(RepliesList(before)) :
                               /\ RepliesList(after)[j].id = RepliesList(before)[j].id
                               /\ RepliesList(after)[j].content
                                  = IF RepliesList(before)[j].id = id
                                    THEN mutations[m].content
                                    ELSE RepliesList(before)[j].content
             ELSE /\ Len(useComments') = Len(kept)
                  /\ \A i \in 1..Len(kept) :
                       /\ useComments'[i].id = kept[i].id
                       /\ useComments'[i].content = kept[i].content
                       /\ RepliesList(useComments'[i])
                          = SelectSeq(RepliesList(kept[i]), LAMBDA reply : reply.id # id)]_vars

\* ------------------------------------------------------------- properties of comment nesting
\* C30: every stored comment that has a parentId answers a stored comment
\* that has none.
C30_NestingOneLevel ==
  \A c \in comments :
    c.parentId # 0 => \E d \in comments : d.id = c.parentId /\ d.parentId = 0

\* ------------------------------------------------------------- properties of the post mutations
\* C21: the onSuccess step of a create, update or delete post mutation leaves
\* every listing entry invalidated and, for an update or a delete, leaves the
\* detail entry of the post invalidated, without data, or holding the post
\* the server answered with.
C21_PostMutationsInvalidate ==
  [][\A m \in DOMAIN mutations :
       (mutations[m].pc = "onSuccess" /\ mutations'[m].pc = "done")
       => /\ \A k \in ListingKeys : cache'.listings[k].isInvalidated
          /\ mutations[m].kind \in {"updatePost", "deletePost"}
             => LET entry == cache'.detail[mutations[m].postId] IN
                  \/ entry.isInvalidated \/ ~entry.data.present
                  \/ entry.data = mutations[m].response]_vars

====
